---------------------------- MODULE Spec2Model ----------------------------
(***************************************************************************)
(* SevaBot: the Nepali legal chunker (chat/nepali_legal_chunker.py), the   *)
(* retrieval engine (chat/rag_service.py) and the upload pipeline          *)
(* (chat/views.py) as state machines.                                      *)
(*                                                                         *)
(* Text is a sequence of code points.  A code point is written as a short  *)
(* ASCII token:                                                            *)
(*   consonants  "ka" "kha" "ga" "gha" "nga" "ca" "cha" "nya" "tta" "ttha" *)
(*               "nna" "ta" "tha" "da" "dha" "na" "pa" "pha" "ba" "bha"    *)
(*               "ma" "ya" "ra" "la" "va" "sha" "ssa" "sa" "ha"            *)
(*   vowels      "a" "aa" "i" "ii" "u" "e" "ai"  (independent letters)     *)
(*   vowel signs "maa" "mi" "mii" "mu" "muu" "me" "mai" "mo" "mau"         *)
(*   marks       "vir" (halanta U+094D)  "vis" (visarga U+0903)            *)
(*               "anu" (U+0902)  "dan" (danda U+0964) "ddan" (U+0965)      *)
(*   numerals    "n0" .. "n9"  (U+0966 .. U+096F)                          *)
(*   others      " " "NL" "TAB" "." "," ":" "(" ")" ">" "-" "#" "dq" (")   *)
(*               "endash" "emdash" "yen" "ordf" "Edia" "sect" "ae" "AE"    *)
(*               "zwj" "zwnj", ASCII letters and digits as themselves,     *)
(*               except the letters a, e, i, u: "a_" "e_" "i_" "u_"        *)
(***************************************************************************)
EXTENDS Integers, Sequences, FiniteSets, TLC

VARIABLES
    \* ---- NepaliLegalChunker.process_pdf_for_rag ----
    max_chunk_tokens,     \* the budget argument
    page_num,             \* enumerate(doc) index of the page being read, -1 before the first
    input,                \* history: the raw lines read so far, as <<page_num, line>>
    chunks,               \* the list of emitted chunks
    current_chapter,
    current_dafa,
    current_upa_dafa,
    current_text_lines,
    current_page_idx,
    page_ok,              \* whether the extraction and repair of the page succeeded
    cpc,                  \* "idle" | "reading" | "done" | "raised"
    \* ---- SevaBot_RAG_Service.retrieve_context ----
    rpc,                  \* "idle" | "user" | "kb" | "rank" | "returned" | "raised"
    collection_name,      \* the argument; "" stands for None
    top_k,
    use_permanent_kb,
    text_hash,            \* hash() of this process on the chunk texts
    user_results,         \* what the private collection answered
    kb_results,           \* what the permanent collection answered
    results,              \* the local list before line 427
    unique_results,       \* the local list after the loop of lines 433-438
    returned,             \* the returned list
    \* ---- NepaliLegalChunker.clean_text ----
    raw_text,             \* the text argument
    cleaned,              \* clean_text(raw_text)
    recleaned,            \* clean_text(cleaned)
    clpc,                 \* "idle" | "input" | "cleaned" | "recleaned"
    \* ---- DocumentViewSet.create and _process_document_async ----
    documents,            \* Document.objects: id -> the persisted row
    upload_response,      \* id -> the status in the body of the 201 response
    upc,                  \* id -> the position of the document's background task
    document,             \* id -> the task's in-memory Document object
    doc_chunks,           \* id -> len(chunks) inside process_document
    result,               \* id -> what process_document returned
    exception,            \* id -> str(e) of the exception caught at line 177
    user_collections,     \* collection name -> the chunks of that private collection
    effects,              \* history: id -> the task's observable side effects
    \* ---- ConversationViewSet.add_message and MessageViewSet.update ----
    messages,             \* Message.objects of one conversation, by created_at
    chat_request,         \* history: the last request and how far its answer got
    chat_response,        \* the Response the last request returned
    \* ---- SevaBot_RAG_Service.load_permanent_knowledge ----
    permanent_collection, \* the chunks of the permanent collection
    knowledge_dir,        \* file name -> the number of chunks the chunker gives
    pdf_files,            \* the files the running load has still to visit
    force_reload,         \* the argument of the running load
    kb_loads,             \* history: the number of loads started
    uuid_count,           \* history: the number of chunk ids drawn so far
    kpc,                  \* "idle" | "loading"
    \* ---- DocumentViewSet.create and generate_rag_response, by owner ----
    doc_rows,             \* Document.objects: id -> user, conversation, status
    searched              \* history: <<user, id>>, a retrieval made for the
                          \* user queried the collection of document id

chunkVars == <<max_chunk_tokens, page_num, input, chunks, current_chapter,
               current_dafa, current_upa_dafa, current_text_lines,
               current_page_idx, page_ok, cpc>>

retrieveVars == <<rpc, collection_name, top_k, use_permanent_kb, text_hash,
                  user_results, kb_results, results, unique_results, returned>>

cleanVars == <<raw_text, cleaned, recleaned, clpc>>

uploadVars == <<documents, upload_response, upc, document, doc_chunks, result,
                exception, user_collections, effects>>

chatVars == <<messages, chat_request, chat_response>>

kbVars == <<permanent_collection, knowledge_dir, pdf_files, force_reload,
            kb_loads, uuid_count, kpc>>

ownerVars == <<doc_rows, searched>>

vars == <<chunkVars, retrieveVars, cleanVars, uploadVars, chatVars, kbVars,
          ownerVars>>

-----------------------------------------------------------------------------
(* Bounds of the model *)

MaxLines == 3
MaxPages == 2
MaxBudget == 2
MaxTopK == 2
Scale == 1
MaxText == 4
MaxDocs == 2
MaxChunks == 2
MaxMessages == 4
MaxLoads == 2

-----------------------------------------------------------------------------
(* Characters and strings *)

\* Python's None
None == <<"<None>">>

Whitespace == {" ", "NL", "TAB"}

NepaliNumerals == {"n0", "n1", "n2", "n3", "n4", "n5", "n6", "n7", "n8", "n9"}

\* [ऀ-ॿ]
Devanagari ==
    {"ka", "kha", "ga", "gha", "nga", "ca", "cha", "tta", "nna", "ta", "da",
     "dha", "na", "pa", "pha", "ba", "bha", "ma", "ya", "ra", "la", "va",
     "ssa", "sa", "ha", "nya", "ttha", "tha", "sha", "a", "aa", "i", "ii",
     "u", "e", "ai", "maa", "mi", "mii", "mu", "muu", "me", "mai", "mo",
     "mau", "vir", "vis", "anu", "dan", "ddan"}
    \cup NepaliNumerals

RECURSIVE Concat(_)
\* "".join(parts)
Concat(parts) ==
    IF parts = <<>> THEN <<>> ELSE Head(parts) \o Concat(Tail(parts))

RECURSIVE Join(_, _)
\* sep.join(parts)
Join(sep, parts) ==
    IF parts = <<>> THEN <<>>
    ELSE IF Len(parts) = 1 THEN parts[1]
    ELSE parts[1] \o sep \o Join(sep, Tail(parts))

RECURSIVE LStrip(_)
LStrip(s) ==
    IF s # <<>> /\ Head(s) \in Whitespace THEN LStrip(Tail(s)) ELSE s

RECURSIVE RStrip(_)
RStrip(s) ==
    IF s # <<>> /\ s[Len(s)] \in Whitespace
    THEN RStrip(SubSeq(s, 1, Len(s) - 1)) ELSE s

\* str.strip()
Strip(s) == RStrip(LStrip(s))

\* needle in hay
Contains(hay, needle) ==
    \E i \in 1..(Len(hay) - Len(needle) + 1) :
        SubSeq(hay, i, i + Len(needle) - 1) = needle

\* hay has needle at position i
HasAt(hay, i, needle) ==
    /\ i + Len(needle) - 1 <= Len(hay)
    /\ SubSeq(hay, i, i + Len(needle) - 1) = needle

RECURSIVE SkipWhile(_, _, _)
\* the first index >= i of s whose character is not in class (Len(s)+1 if none)
SkipWhile(s, i, class) ==
    IF i <= Len(s) /\ s[i] \in class THEN SkipWhile(s, i + 1, class) ELSE i

LowerChar(c) ==
    CASE c = "W" -> "w" [] c = "L" -> "l" [] c = "A" -> "a_" [] c = "C" -> "c"
      [] c = "O" -> "o" [] c = "M" -> "m" [] c = "I" -> "i_" [] c = "S" -> "s"
      [] c = "N" -> "n" [] OTHER -> c

\* str.lower() (the ASCII letters a, e, i, u are written "a_" "e_" "i_" "u_")
Lower(s) == [i \in 1..Len(s) |-> LowerChar(s[i])]

RECURSIVE Dec(_)
\* str(n) of a natural number
Dec(n) ==
    LET d == <<"0", "1", "2", "3", "4", "5", "6", "7", "8", "9">>[(n % 10) + 1]
    IN IF n < 10 THEN <<d>> ELSE Dec(n \div 10) \o <<d>>

-----------------------------------------------------------------------------
(* NepaliLegalChunker.__init__: the four boundary patterns.  Each operator *)
(* is re.match of the pattern on the line: the captured numeral, or None.  *)

Parichhed == <<"pa", "ra", "mi", "ca", "vir", "cha", "me", "da">>
Dafa == <<"da", "pha", "maa">>
UpaDafa == <<"u", "pa", "da", "pha", "maa">>

\* ^\s*KEYWORD sep+ ([numerals]+) ; sep+ is absent when sepClass = {}
KeywordNumeral(line, kw, sepClass) ==
    LET i == SkipWhile(line, 1, Whitespace)
        j == i + Len(kw)
        k == SkipWhile(line, j, sepClass)
        e == SkipWhile(line, k, NepaliNumerals)
    IN IF HasAt(line, i, kw) /\ k > j /\ e > k
       THEN SubSeq(line, k, e - 1) ELSE None

\* r"^\s*परिच्छेद[–-—\s]+([०-९]+)": the class is the range U+2013..U+2014
\* and white space
chapter_pattern(line) ==
    KeywordNumeral(line, Parichhed, {"endash", "emdash"} \cup Whitespace)

\* a variant of section_pattern that wants white space after the period
section_pattern_ThenSpace(line) ==
    LET i == SkipWhile(line, 1, Whitespace)
        e == SkipWhile(line, i, NepaliNumerals)
    IN IF e > i /\ HasAt(line, e, <<".">>) /\ e < Len(line) /\ line[e + 1] \in Whitespace
       THEN SubSeq(line, i, e - 1) ELSE None

\* r"^\s*([०-९]+)\."
section_pattern(line) ==
    LET i == SkipWhile(line, 1, Whitespace)
        e == SkipWhile(line, i, NepaliNumerals)
    IN IF e > i /\ HasAt(line, e, <<".">>) THEN SubSeq(line, i, e - 1) ELSE None

\* r"^\s*दफा\s+([०-९]+)"
dafa_pattern(line) == KeywordNumeral(line, Dafa, Whitespace)

\* "\(([०-९]+)\)" at position i
ParenNumeral(line, i) ==
    LET e == SkipWhile(line, i + 1, NepaliNumerals)
    IN IF HasAt(line, i, <<"(">>) /\ e > i + 1 /\ HasAt(line, e, <<")">>)
       THEN SubSeq(line, i + 1, e - 1) ELSE None

\* r"^\s*(?:उपदफा\s+)?\(([०-९]+)\)"
upa_dafa_pattern(line) ==
    LET i == SkipWhile(line, 1, Whitespace)
        j == i + Len(UpaDafa)
        k == SkipWhile(line, j, Whitespace)
    IN IF HasAt(line, i, UpaDafa) /\ k > j /\ ParenNumeral(line, k) # None
       THEN ParenNumeral(line, k)
       ELSE ParenNumeral(line, i)

-----------------------------------------------------------------------------
(* NepaliLegalChunker.is_garbage_line *)

UrlArtifact ==
    <<"dha", "dha", "dha", "dan", "ba", "mi", "dha", "a", "ya", "pha", "pha",
      "ssa", "vir", "ka", "ka", "ssa", "vir", "ya", "la", "dan", "na", "ya",
      "kha", "dan", "la", "u">>

JunkGlyphs == {"da", "vir", "nna", "gha", "ka", "ssa"}

Lawcommission ==
    <<"l", "a_", "w", "c", "o", "m", "m", "i_", "s", "s", "i_", "o", "n">>

\* re.match(r'^\s*[class]+\s*$', line)
OnlyOf(line, class) ==
    LET i == SkipWhile(line, 1, Whitespace)
        e == SkipWhile(line, i, class)
    IN e > i /\ SkipWhile(line, e, Whitespace) = Len(line) + 1

is_garbage_line(line) ==
    \/ Contains(line, UrlArtifact)
    \/ OnlyOf(line, NepaliNumerals)
    \/ OnlyOf(line, JunkGlyphs)
    \/ Contains(Lower(line), Lawcommission)
    \/ Contains(Lower(line), <<"w", "w", "w">>)
    \/ Len(Strip(line)) < 3

-----------------------------------------------------------------------------
(* NepaliLegalChunker.clean_text *)

\* the first index >= i at which old occurs in s, 0 if there is none
Find(s, i, old) ==
    LET at == {j \in i..Len(s) : HasAt(s, j, old)}
    IN IF at = {} THEN 0 ELSE CHOOSE j \in at : \A k \in at : j <= k

RECURSIVE ReplaceFrom(_, _, _, _)
ReplaceFrom(s, i, old, new) ==
    LET j == Find(s, i, old)
    IN IF j = 0 THEN SubSeq(s, i, Len(s))
       ELSE SubSeq(s, i, j - 1) \o new
            \o ReplaceFrom(s, j + Len(old), old, new)

\* s.replace(old, new): the occurrences of old, left to right, not overlapping
Replace(s, old, new) == ReplaceFrom(s, 1, old, new)

\* a run of n spaces
Spaces(n) == [i \in 1..n |-> " "]

\* lines 98-99: the three quotation marks after ("ae", open a triple-quoted
\* string that ends at the three quotation marks of line 99, so the two lines
\* are the single entry ("ae", StartQuoteLiteral) and "AE" has no entry
StartQuoteLiteral ==
    <<")", ",">> \o Spaces(14)
    \o <<"#", " ", "S", "t", "a_", "r", "t", " ", "q", "u_", "o", "t", "e_",
         " ", "a_", "r", "t", "i_", "f", "a_", "c", "t", "NL">>
    \o Spaces(12) \o <<"(", "dq", "AE", "dq", ",", " ">>

\* lines 80-102: (incorrect, correct), in the order of the list
replacements ==
    << <<(<<"na", "ra", "vir", "mu">>), (<<"ra", "vir", "na", "mu">>)>>,
       <<(<<"na", "ra", "vir", "me">>), (<<"ra", "vir", "na", "me">>)>>,
       <<(<<"ka", "mu", "ra", "maa", "ha", "vir", "ra">>),
         (<<"ka", "mu", "ra", "maa", "ha", "ra", "muu">>)>>,
       <<(<<"ha", "vir", "ra">>), (<<"ha", "ra", "muu">>)>>,
       <<(<<"pa", "mu", "yen", "ya", "maa", "e", "ma", "maa">>),
         (<<"pa", "mu", "ra", "vir", "ya", "maa", "e", "ma", "maa">>)>>,
       <<(<<"yen">>), (<<"ra", "vir">>)>>,
       <<(<<" ", "vis">>), (<<" ", ":">>)>>,
       <<(<<"vis">>), (<<":">>)>>,
       <<(<<"va", "vir", "ya", "ta", "vir", "ta", "mi", "pha">>),
         (<<"va", "vir", "ya", "ka", "vir", "ta", "mi">>)>>,
       <<(<<"aa", "pa", "vir", "pha", "na", "mo">>),
         (<<"aa", "pha", "vir", "na", "mo">>)>>,
       <<(<<"maa", "mai">>), (<<"mau">>)>>,
       <<(<<"e", "me">>), (<<"ai">>)>>,
       <<(<<"a", "vir", "ra">>), (<<"a", "ra", "mu">>)>>,
       <<(<<"la", "maa", "ra", "vir", "i">>), (<<"la", "maa", "ii">>)>>,
       <<(<<"ordf">>), (<<"nga">>)>>,
       <<(<<"Edia">>), (<<"nga", "vir", "ga">>)>>,
       <<(<<"sect">>), (<<"tta", "vir", "tta">>)>>,
       <<(<<"ae">>), StartQuoteLiteral>>,
       <<(<<"da", "maa", "va", "mii">>), (<<"da", "maa", "ba", "mii">>)>>,
       <<(<<" ", " ">>), (<<" ">>)>> >>

RECURSIVE ApplyReplacements(_, _)
\* lines 104-105: the loop over the list, from entry k on
ApplyReplacements(s, k) ==
    IF k > Len(replacements) THEN s
    ELSE IF Contains(s, replacements[k][1])
         THEN ApplyReplacements(
                  Replace(s, replacements[k][1], replacements[k][2]), k + 1)
         ELSE ApplyReplacements(s, k + 1)

\* line 119
keep_halanta ==
    { <<"a", "ra", "vir", "tha", "maa", "ta", "vir">>,
      <<"sa", "ma", "vir", "bha", "va", "ta", "vir">>,
      <<"ka", "mi", "nya", "vir", "ca", "mi", "ta", "vir">>,
      <<"ka", "da", "maa", "ca", "mi", "ta", "vir">>,
      <<"pa", "ra", "mi", "ssa", "da", "vir">>,
      <<"va", "mi", "da", "vir", "va", "maa", "na", "vir">>,
      <<"pa", "sha", "vir", "ca", "maa", "ta", "vir">>,
      <<"sa", "ma", "vir", "ra", "maa", "tta", "vir">>,
      <<"ha", "ttha", "maa", "ta", "vir">> }

\* lines 116-124
remove_trailing_halanta(word) ==
    IF word \in keep_halanta THEN word
    ELSE IF Len(word) < 3 THEN word
    ELSE SubSeq(word, 1, Len(word) - 1)

\* the characters of the lookahead (?=[\s,DANDA]) of line 126
AfterHalanta == Whitespace \cup {",", "dan"}

\* the ends j of the matches of ([DEVANAGARI]+HALANTA)(?=...) that start at i:
\* s[i..j-1] is in the class, s[j] is the halanta, s[j+1] is looked at
HalantaEnds(s, i) ==
    {j \in (i + 1)..(SkipWhile(s, i, Devanagari) - 1) :
        /\ s[j] = "vir"
        /\ j + 1 <= Len(s)
        /\ s[j + 1] \in AfterHalanta}

RECURSIVE HalantaSubFrom(_, _)
\* line 126: re.sub, leftmost match first, the class greedy
HalantaSubFrom(s, i) ==
    LET starts == {k \in i..Len(s) : HalantaEnds(s, k) # {}}
    IN IF starts = {} THEN SubSeq(s, i, Len(s))
       ELSE LET k == CHOOSE a \in starts : \A b \in starts : a <= b
                ends == HalantaEnds(s, k)
                j == CHOOSE e \in ends : \A f \in ends : f <= e
            IN SubSeq(s, i, k - 1) \o remove_trailing_halanta(SubSeq(s, k, j))
               \o HalantaSubFrom(s, j + 1)

\* line 126
RemoveTrailingHalantas(text) == HalantaSubFrom(text, 1)

Nagarikta == <<"na", "maa", "ga", "ra", "mi", "ka", "ta", "maa">>

\* lines 131-132
FixNagarikta(text) ==
    Replace(Replace(text,
                    <<"na", "maa", "ga", "ra", "vir", "mi", " ", "ka", "ta",
                      "maa">>,
                    Nagarikta),
            <<"na", "maa", "ga", "ra", "vir", "mi", " ", "ka">>,
            SubSeq(Nagarikta, 1, 6))

\* line 136
RemoveJoiners(text) == Replace(Replace(text, <<"zwj">>, <<>>), <<"zwnj">>, <<>>)

\* line 139
FixNgaInParentheses(text) ==
    Replace(text, <<"(", "ordf", ")">>, <<"(", "nga", ")">>)

clean_text(text) ==
    FixNgaInParentheses(
        RemoveJoiners(
            FixNagarikta(
                RemoveTrailingHalantas(ApplyReplacements(text, 1)))))

-----------------------------------------------------------------------------
(* NepaliLegalChunker._save_chunk_for_rag and _split_large_chunk.  The     *)
(* chunk's "id" (a fresh uuid4) and "source" (the basename of the one path *)
(* of the run) are left out of the chunk records.                          *)

\* len(text) // 4
EstimatedTokens(text) == Len(text) \div 4

SentenceTerminators == {"dan", "ddan"}

RECURSIVE SplitFrom(_, _, _)
SplitFrom(text, i, piece) ==
    IF i > Len(text) THEN <<piece>>
    ELSE IF text[i] \in SentenceTerminators
         THEN <<piece>> \o SplitFrom(text, SkipWhile(text, i + 1, Whitespace), <<>>)
         ELSE SplitFrom(text, i + 1, Append(piece, text[i]))

\* re.split(r'[।॥]\s*', text)
SplitSentences(text) == SplitFrom(text, 1, <<>>)

\* f"{hierarchical_title} (भाग {chunk_index})"
PartTitle(hierarchical_title, chunk_index) ==
    hierarchical_title \o <<" ", "(", "bha", "maa", "ga", " ">>
        \o Dec(chunk_index) \o <<")">>

\* a variant of SplitChunk that never advances the part counter
SplitChunk_PartOne(current_chunk, unit, chunk_index) ==
    [text |-> Strip(current_chunk),
     chapter |-> unit.chapter,
     dafa |-> unit.dafa,
     upa_dafa |-> IF unit.upa_dafa = None THEN <<>> ELSE unit.upa_dafa,
     hierarchical_title |-> PartTitle(unit.hierarchical_title, 1),
     page |-> unit.page,
     chunk_type |-> "split_section",
     part_number |-> 1,
     estimated_tokens |-> EstimatedTokens(current_chunk)]

\* the dict appended at lines 361-375 and 384-398
SplitChunk(current_chunk, unit, chunk_index) ==
    [text |-> Strip(current_chunk),
     chapter |-> unit.chapter,
     dafa |-> unit.dafa,
     upa_dafa |-> IF unit.upa_dafa = None THEN <<>> ELSE unit.upa_dafa,
     hierarchical_title |-> PartTitle(unit.hierarchical_title, chunk_index),
     page |-> unit.page,
     chunk_type |-> "split_section",
     part_number |-> chunk_index,
     estimated_tokens |-> EstimatedTokens(current_chunk)]

\* a variant of ClosesChunk that measures the running chunk, not the extended one
ClosesChunk_TestsRunning(test_chunk, current_chunk, max_tokens) ==
    EstimatedTokens(current_chunk) > max_tokens /\ current_chunk # <<>>

\* line 359: the running chunk is closed before this sentence is added
ClosesChunk(test_chunk, current_chunk, max_tokens) ==
    EstimatedTokens(test_chunk) > max_tokens /\ current_chunk # <<>>

RECURSIVE SplitLoop(_, _, _, _, _)
\* the for loop of lines 348-380, then the final save of lines 382-398
SplitLoop(sentences, current_chunk, chunk_index, unit, max_tokens) ==
    IF sentences = <<>>
    THEN IF Strip(current_chunk) # <<>>
         THEN <<SplitChunk(current_chunk, unit, chunk_index)>>
         ELSE <<>>
    ELSE LET stripped == Strip(Head(sentences))
             sentence == stripped \o <<"dan">>
             test_chunk == IF current_chunk # <<>>
                           THEN current_chunk \o <<" ">> \o sentence
                           ELSE sentence
         IN IF stripped = <<>>
            THEN SplitLoop(Tail(sentences), current_chunk, chunk_index, unit, max_tokens)
            ELSE IF ClosesChunk(test_chunk, current_chunk, max_tokens)
                 THEN <<SplitChunk(current_chunk, unit, chunk_index)>>
                      \o SplitLoop(Tail(sentences), sentence, chunk_index + 1,
                                   unit, max_tokens)
                 ELSE SplitLoop(Tail(sentences), test_chunk, chunk_index,
                                unit, max_tokens)

\* the chunks _split_large_chunk appends to chunks_list
split_large_chunk(text, unit, max_tokens) ==
    SplitLoop(SplitSentences(text), <<>>, 1, unit, max_tokens)

\* the labels of lines 164, 165 and 202
Unknown == <<"U", "n", "k", "n", "o", "w", "n">>
Intro == <<"I", "n", "t", "r", "o">>
Header == <<"H", "e_", "a_", "d", "e_", "r">>

\* a variant of HierarchicalTitle that omits the article label for "Intro" only
HierarchicalTitle_KeepsHeader(chapter, dafa, upa_dafa) ==
    Join(<<" ", ">", " ">>,
         <<chapter>>
         \o (IF dafa # Intro THEN <<dafa>> ELSE <<>>)
         \o (IF upa_dafa # None /\ upa_dafa # <<>> THEN <<upa_dafa>> ELSE <<>>))

\* lines 296-302
HierarchicalTitle(chapter, dafa, upa_dafa) ==
    Join(<<" ", ">", " ">>,
         <<chapter>>
         \o (IF dafa # Intro /\ dafa # Header THEN <<dafa>> ELSE <<>>)
         \o (IF upa_dafa # None /\ upa_dafa # <<>> THEN <<upa_dafa>> ELSE <<>>))

\* the dict appended at lines 306-319
CompleteChunk(chunk_text, chapter, dafa, upa_dafa, page) ==
    [text |-> chunk_text,
     chapter |-> chapter,
     dafa |-> dafa,
     upa_dafa |-> IF upa_dafa = None THEN <<>> ELSE upa_dafa,
     hierarchical_title |-> HierarchicalTitle(chapter, dafa, upa_dafa),
     page |-> page,
     chunk_type |-> "complete_section",
     estimated_tokens |-> EstimatedTokens(chunk_text)]

\* a variant of SavedAsIs that sends a unit at exactly the budget to the splitter
SavedAsIs_BelowBudget(chunk_text, max_tokens) == EstimatedTokens(chunk_text) < max_tokens

\* line 305
SavedAsIs(chunk_text, max_tokens) == EstimatedTokens(chunk_text) <= max_tokens

\* the chunks _save_chunk_for_rag appends to chunks_list
save_chunk_for_rag(text_lines, chapter, dafa, upa_dafa, page, max_tokens) ==
    LET chunk_text == Strip(Join(<<"NL">>, text_lines))
    IN IF text_lines = <<>> THEN <<>>
       ELSE IF chunk_text = <<>> THEN <<>>
       ELSE IF SavedAsIs(chunk_text, max_tokens)
            THEN <<CompleteChunk(chunk_text, chapter, dafa, upa_dafa, page)>>
            ELSE split_large_chunk(
                     chunk_text,
                     [chapter |-> chapter, dafa |-> dafa, upa_dafa |-> upa_dafa,
                      hierarchical_title |-> HierarchicalTitle(chapter, dafa, upa_dafa),
                      page |-> page],
                     max_tokens)

\* the flush of the unit being built, as every call site of lines 194-265 makes it
Flush ==
    save_chunk_for_rag(current_text_lines, current_chapter, current_dafa,
                       current_upa_dafa, current_page_idx, max_chunk_tokens)

-----------------------------------------------------------------------------
(* NepaliLegalChunker.process_pdf_for_rag *)

\* a variant of ChapterLabel that joins with a hyphen
ChapterLabel_Hyphen(numeral) == Parichhed \o <<"-">> \o numeral
\* f"परिच्छेद–{chapter_match.group(1)}"
ChapterLabel(numeral) == Parichhed \o <<"endash">> \o numeral
\* a variant of DafaLabel that takes the Section numeral with its period
DafaLabel_WithPeriod(numeral) == Dafa \o <<" ">> \o numeral \o <<".">>
\* f"दफा {dafa_match.group(1)}"
DafaLabel(numeral) == Dafa \o <<" ">> \o numeral
\* a variant of UpaDafaLabel without the parentheses
UpaDafaLabel_Bare(numeral) == numeral
\* f"({upa_dafa_match.group(1)})"
UpaDafaLabel(numeral) == <<"(">> \o numeral \o <<")">>

\* the lines a page of cleaned text can hold (text.split('\n'), before strip)
Lines ==
    { <<>>,                                                        \* blank
      <<" ", "n1", "n2", " ">>,                                    \* a page number
      <<"W", "w", "w", " ", "ga", "ma">>,                          \* boilerplate
      Parichhed \o <<"endash", "n1">>,                             \* chapter
      Dafa \o <<" ", "n1", " ", "ga", "ma", "dan">>,               \* article
      <<"n2", ".", "(", "n1", ")", " ", "ma", "dan">>,             \* section
      <<"(", "n1", ")", " ", "ga", "ma", "dan", " ", "ma", "ga">>, \* sub-article
      UpaDafa \o <<" ", "(", "n2", ")", " ", "ma">>,               \* sub-article
      <<" ", "ga", "ma", "ddan", "ma", "ga", "dan", "dan", " ">>,  \* sentences
      <<"ga", "ma", "ga", "ma", "ga", "ma", "ga", "ma", "ga", "ma", "ga", "ma">>,
      <<"dan", "ddan", "dan", "dan">> }                            \* terminators

\* the values of the max_chunk_tokens argument (process_document passes 800)
Budgets == {MaxBudget}

\* rag_service.py line 117 and the default of line 146
DefaultBudget == 800

ChunkInit ==
    /\ max_chunk_tokens \in Budgets
    /\ page_num = -1
    /\ page_ok = FALSE
    /\ input = <<>>
    /\ chunks = <<>>
    /\ current_chapter = Unknown
    /\ current_dafa = Intro
    /\ current_upa_dafa = None
    /\ current_text_lines = <<>>
    /\ current_page_idx = 1
    /\ cpc = "reading"

\* a variant of AfterPageFailure in which the exception leaves the function
AfterPageFailure_Propagates == "raised"

\* lines 178-180: the exception of a page is logged and the loop continues
AfterPageFailure == "reading"

\* lines 172-183: the next page of the document; its extraction and repair
\* (get_text, convert_text, clean_text) either give its text or raise, and
\* a page that raised is skipped
NextPage ==
    /\ cpc = "reading"
    /\ page_num + 1 < MaxPages
    /\ page_num' = page_num + 1
    /\ page_ok' \in BOOLEAN
    /\ cpc' = IF page_ok' THEN "reading" ELSE AfterPageFailure
    /\ UNCHANGED <<max_chunk_tokens, input, chunks, current_chapter, current_dafa,
                   current_upa_dafa, current_text_lines, current_page_idx>>
    /\ UNCHANGED <<retrieveVars, cleanVars, uploadVars, chatVars, kbVars, ownerVars>>

\* a variant of AfterSubUnitFlush that keeps the lines of the flushed sub-unit
AfterSubUnitFlush_KeepsLines == current_text_lines

\* line 250: the buffer is restarted after the flush of an open sub-unit
AfterSubUnitFlush == <<>>

\* lines 185-259: the body of the loop over the lines of the page
ProcessLine(raw) ==
    LET line == Strip(raw)
        chapter_match == chapter_pattern(line)
        dafa_match == dafa_pattern(line)
        section_match == section_pattern(line)
        upa_dafa_match == upa_dafa_pattern(line)
    IN
    /\ cpc = "reading"
    /\ page_num >= 0 /\ page_ok
    /\ Len(input) < MaxLines
    /\ input' = Append(input, <<page_num, raw>>)
    /\ IF line = <<>> \/ is_garbage_line(line)
       THEN UNCHANGED <<chunks, current_chapter, current_dafa, current_upa_dafa,
                        current_text_lines, current_page_idx>>
       ELSE IF chapter_match # None
       THEN /\ chunks' = chunks \o Flush
            /\ current_chapter' = ChapterLabel(chapter_match)
            /\ current_dafa' = Header
            /\ current_upa_dafa' = None
            /\ current_text_lines' = <<line>>
            /\ current_page_idx' = page_num + 1
       ELSE IF dafa_match # None
       THEN /\ chunks' = chunks \o Flush
            /\ current_dafa' = DafaLabel(dafa_match)
            /\ current_upa_dafa' = None
            /\ current_page_idx' = page_num + 1
            /\ current_text_lines' = <<line>>
            /\ UNCHANGED current_chapter
       ELSE IF section_match # None
       THEN /\ chunks' = chunks \o Flush
            /\ current_dafa' = DafaLabel(section_match)
            /\ current_upa_dafa' = None
            /\ current_page_idx' = page_num + 1
            /\ current_text_lines' = <<line>>
            /\ UNCHANGED current_chapter
       ELSE IF upa_dafa_match # None
       THEN /\ IF current_upa_dafa # None
               THEN /\ chunks' = chunks \o Flush
                    /\ current_text_lines' = Append(AfterSubUnitFlush, line)
               ELSE /\ chunks' = chunks
                    /\ current_text_lines' = Append(current_text_lines, line)
            /\ current_upa_dafa' = UpaDafaLabel(upa_dafa_match)
            /\ UNCHANGED <<current_chapter, current_dafa, current_page_idx>>
       ELSE /\ current_text_lines' = Append(current_text_lines, line)
            /\ UNCHANGED <<chunks, current_chapter, current_dafa,
                           current_upa_dafa, current_page_idx>>
    /\ UNCHANGED <<max_chunk_tokens, page_num, page_ok, cpc>>
    /\ UNCHANGED <<retrieveVars, cleanVars, uploadVars, chatVars, kbVars, ownerVars>>

ReadLine == \E raw \in Lines : ProcessLine(raw)

\* lines 261-269: the end of the document, the final flush and the return
FinishPdf ==
    /\ cpc = "reading"
    /\ chunks' = chunks \o Flush
    /\ cpc' = "done"
    /\ UNCHANGED <<max_chunk_tokens, page_num, page_ok, input, current_chapter,
                   current_dafa, current_upa_dafa, current_text_lines,
                   current_page_idx>>
    /\ UNCHANGED <<retrieveVars, cleanVars, uploadVars, chatVars, kbVars, ownerVars>>

ChunkNext == NextPage \/ ReadLine \/ FinishPdf

\* the initial state of a run that process_document starts
ChunkInitDefault ==
    /\ max_chunk_tokens = DefaultBudget
    /\ page_num = -1
    /\ page_ok = FALSE
    /\ input = <<>>
    /\ chunks = <<>>
    /\ current_chapter = Unknown
    /\ current_dafa = Intro
    /\ current_upa_dafa = None
    /\ current_text_lines = <<>>
    /\ current_page_idx = 1
    /\ cpc = "reading"

-----------------------------------------------------------------------------
(* SevaBot_RAG_Service.retrieve_context.  A distance d of the backend is   *)
(* written as the integer d * Scale, a relevance score s as the integer    *)
(* s * 2 * Scale, so that 1 - d/2 is exact.  A hit's "id" is its source    *)
(* and rank; its "metadata" is passed through and left out.                *)

Texts == {"A", "B"}

\* the cosine distances of the backend, 0 (identical) to 2 (opposite)
Distances == 0..(2 * Scale)

\* hash() on the texts, up to the naming of the hash values: injective or not
HashFunctions == {h \in [Texts -> 0..1] : h["A"] = 0}

\* a variant of similarity_user that forgets to halve the distance
similarity_user_NotHalved(distance) == 2 * Scale - 2 * distance

\* line 390: similarity = 1 - (distance / 2)
similarity_user(distance) == 2 * Scale - distance

\* line 414: similarity = 1 - (distance / 2)
similarity_kb(distance) == 2 * Scale - distance

\* the answers a collection can give to query(n_results = n): at most n hits,
\* nearest first
QueryAnswers(n) ==
    UNION {{hits \in [1..len -> [text : Texts, distance : Distances]] :
               \A i \in 1..(len - 1) : hits[i].distance <= hits[i + 1].distance}
           : len \in 0..n}

\* lines 384-398
UserEntries(hits) ==
    [i \in 1..Len(hits) |->
        [id |-> <<"user", i>>, text |-> hits[i].text,
         relevance_score |-> similarity_user(hits[i].distance),
         source |-> "user_document"]]

\* lines 411-422
KbEntries(hits) ==
    [i \in 1..Len(hits) |->
        [id |-> <<"kb", i>>, text |-> hits[i].text,
         relevance_score |-> similarity_kb(hits[i].distance),
         source |-> "permanent_kb"]]

RECURSIVE InsertDesc(_, _)
\* r put into the list sorted by descending score, behind the entries of its score
InsertDesc(sorted, r) ==
    IF sorted = <<>> THEN <<r>>
    ELSE IF Head(sorted).relevance_score >= r.relevance_score
         THEN <<Head(sorted)>> \o InsertDesc(Tail(sorted), r)
         ELSE <<r>> \o sorted

RECURSIVE SortFrom(_, _, _)
SortFrom(list, i, sorted) ==
    IF i > Len(list) THEN sorted
    ELSE SortFrom(list, i + 1, InsertDesc(sorted, list[i]))

\* a variant of SortByRelevance that leaves tied entries in reverse order
SortByRelevance_TiesReversed(list) ==
    SortFrom([i \in 1..Len(list) |-> list[Len(list) + 1 - i]], 1, <<>>)

\* line 427: results.sort(key=relevance_score, reverse=True), a stable sort
SortByRelevance(list) == SortFrom(list, 1, <<>>)

RECURSIVE UniqueFrom(_, _, _, _)
UniqueFrom(list, i, seen_texts, h) ==
    IF i > Len(list) THEN <<>>
    ELSE IF h[list[i].text] \notin seen_texts
         THEN <<list[i]>> \o UniqueFrom(list, i + 1, seen_texts \cup {h[list[i].text]}, h)
         ELSE UniqueFrom(list, i + 1, seen_texts, h)

\* lines 430-438: the entries whose text hash was not seen before
Unique(list, h) == UniqueFrom(list, 1, {}, h)

\* a variant of Ranked that deduplicates before it sorts
Ranked_DedupFirst(list, h) == SortByRelevance(Unique(list, h))

\* lines 426-438: sort, then deduplicate
Ranked(list, h) == Unique(SortByRelevance(list), h)

\* a variant of TopK that returns the whole list
TopK_All(list, k) == list

\* line 441: unique_results[:top_k]
TopK(list, k) == SubSeq(list, 1, IF Len(list) < k THEN Len(list) ELSE k)

\* a variant of AfterUserFailure in which the exception leaves retrieve_context
AfterUserFailure_Propagates == "raised"

\* lines 399-400: the exception of the private search is logged and the
\* permanent search is next
AfterUserFailure == "kb"

\* lines 423-424: the exception of the permanent search is logged and the
\* ranking is next
AfterKbFailure == "rank"

NotAsked == [status |-> "not_asked", hits |-> <<>>]

RetrieveIdle ==
    /\ rpc = "idle" /\ collection_name = "" /\ top_k = 0
    /\ use_permanent_kb = FALSE /\ text_hash = <<>>
    /\ user_results = NotAsked /\ kb_results = NotAsked /\ results = <<>>
    /\ unique_results = <<>> /\ returned = <<>>

RetrieveInit ==
    /\ rpc = "idle"
    /\ collection_name \in {"", "sevabot_user_1_doc_1"}
    /\ top_k \in 1..MaxTopK
    /\ use_permanent_kb \in BOOLEAN
    /\ text_hash \in HashFunctions
    /\ user_results = NotAsked /\ kb_results = NotAsked /\ results = <<>>
    /\ unique_results = <<>> /\ returned = <<>>

\* lines 363-371: the query embedding; encode() either answers or raises, and
\* nothing catches its exception
EmbedQuery ==
    /\ rpc = "idle"
    /\ \E encoded \in BOOLEAN : rpc' = IF encoded THEN "user" ELSE "raised"
    /\ results' = <<>>
    /\ UNCHANGED <<collection_name, top_k, use_permanent_kb, text_hash,
                   user_results, kb_results, unique_results, returned>>
    /\ UNCHANGED <<chunkVars, cleanVars, uploadVars, chatVars, kbVars, ownerVars>>

\* lines 373-400: the search of the private collection
SearchUser ==
    /\ rpc = "user"
    /\ IF collection_name = ""
       THEN /\ rpc' = "kb"
            /\ UNCHANGED <<user_results, results>>
       ELSE \/ \E failure \in {"get_collection raised", "query raised"} :
                 /\ user_results' = [status |-> failure, hits |-> <<>>]
                 /\ rpc' = AfterUserFailure
                 /\ UNCHANGED results
            \/ \E hits \in QueryAnswers(top_k) :
                 /\ user_results' = [status |-> "ok", hits |-> hits]
                 /\ results' = results \o UserEntries(hits)
                 /\ rpc' = "kb"
    /\ UNCHANGED <<collection_name, top_k, use_permanent_kb, text_hash,
                   kb_results, unique_results, returned>>
    /\ UNCHANGED <<chunkVars, cleanVars, uploadVars, chatVars, kbVars, ownerVars>>

\* lines 402-424: the search of the permanent collection
SearchPermanent ==
    /\ rpc = "kb"
    /\ IF ~use_permanent_kb
       THEN /\ rpc' = "rank"
            /\ UNCHANGED <<kb_results, results>>
       ELSE \/ /\ kb_results' = [status |-> "query raised", hits |-> <<>>]
               /\ rpc' = AfterKbFailure
               /\ UNCHANGED results
            \/ \E hits \in QueryAnswers(top_k) :
                 /\ kb_results' = [status |-> "ok", hits |-> hits]
                 /\ results' = results \o KbEntries(hits)
                 /\ rpc' = "rank"
    /\ UNCHANGED <<collection_name, top_k, use_permanent_kb, text_hash,
                   user_results, unique_results, returned>>
    /\ UNCHANGED <<chunkVars, cleanVars, uploadVars, chatVars, kbVars, ownerVars>>

\* lines 426-441: sort, deduplicate, cut to top_k and return
RankAndReturn ==
    /\ rpc = "rank"
    /\ unique_results' = Ranked(results, text_hash)
    /\ returned' = TopK(unique_results', top_k)
    /\ rpc' = "returned"
    /\ UNCHANGED <<collection_name, top_k, use_permanent_kb, text_hash,
                   user_results, kb_results, results>>
    /\ UNCHANGED <<chunkVars, cleanVars, uploadVars, chatVars, kbVars, ownerVars>>

RetrieveNext == EmbedQuery \/ SearchUser \/ SearchPermanent \/ RankAndReturn

-----------------------------------------------------------------------------
(* clean_text applied to a text, and again to its own output *)

CleanAlphabet == {"ka", "ha", "ra", "vir", " ", "dan", "yen"}

CleanInputs == UNION {[1..n -> CleanAlphabet] : n \in 0..MaxText}

CleanIdle ==
    clpc = "idle" /\ raw_text = <<>> /\ cleaned = <<>> /\ recleaned = <<>>

CleanInit ==
    clpc = "input" /\ raw_text \in CleanInputs /\ cleaned = <<>>
    /\ recleaned = <<>>

CleanOnce ==
    /\ clpc = "input"
    /\ cleaned' = clean_text(raw_text)
    /\ clpc' = "cleaned"
    /\ UNCHANGED <<raw_text, recleaned>>
    /\ UNCHANGED <<chunkVars, retrieveVars, uploadVars, chatVars, kbVars, ownerVars>>

CleanAgain ==
    /\ clpc = "cleaned"
    /\ recleaned' = clean_text(cleaned)
    /\ clpc' = "recleaned"
    /\ UNCHANGED <<raw_text, cleaned>>
    /\ UNCHANGED <<chunkVars, retrieveVars, uploadVars, chatVars, kbVars, ownerVars>>

CleanNext == CleanOnce \/ CleanAgain

-----------------------------------------------------------------------------
(* DocumentViewSet.create, DocumentViewSet._process_document_async (views.py) *)
(* and SevaBot_RAG_Service.process_document with add_to_permanent_kb=False.   *)
(* A Document row keeps filename, status, collection_id, num_chunks and       *)
(* error_message; num_pages and processed_at are left out.  A call of the     *)
(* database, of the embedding model or of the vector store answers or raises. *)

Docs == 1..MaxDocs

\* request.FILES.get('file'): None or the name of the uploaded file
Files ==
    {None, <<"a_", ".", "t", "x", "t">>, <<"a_", ".", "p", "d", "f">>}

\* name.endswith(suffix)
EndsWith(name, suffix) ==
    /\ Len(name) >= Len(suffix)
    /\ SubSeq(name, Len(name) - Len(suffix) + 1, Len(name)) = suffix

\* lines 105-116: the two rejections with HTTP 400
Accepted(file) == file # None /\ EndsWith(file, <<".", "p", "d", "f">>)

NoRow ==
    [filename |-> None, status |-> "<no row>", collection_id |-> None,
     num_chunks |-> 0, error_message |-> ""]

\* lines 119-125, with the defaults of models.Document
NewRow(file) ==
    [filename |-> file, status |-> "pending", collection_id |-> None,
     num_chunks |-> 0, error_message |-> ""]

\* rag_service.py line 239: the name is made of the user id and the document
\* id; the document id alone tells two names apart
\* a variant of UserCollectionName that leaves the document id out
UserCollectionName_WithoutDocument(d) == <<"sevabot_user_doc", 1>>

UserCollectionName(d) == <<"sevabot_user_doc", d>>

\* the names of the private collections of the vector store
CollectionNames == {UserCollectionName(d) : d \in Docs}

NoCollection == [exists |-> FALSE, stored |-> {}]

NoResult ==
    [success |-> FALSE, collection_id |-> None, num_chunks |-> 0, error |-> ""]

\* rag_service.py lines 125-128 and 186-189
Failure(error) ==
    [success |-> FALSE, collection_id |-> None, num_chunks |-> 0,
     error |-> error]

\* rag_service.py lines 176-182
Success(d, n) ==
    [success |-> TRUE, collection_id |-> UserCollectionName(d),
     num_chunks |-> n, error |-> ""]

\* rag_service.py line 123
NoChunksGuidance == "No text chunks could be extracted from the document"

\* the state before any upload
UploadInit ==
    /\ documents = [d \in Docs |-> NoRow]
    /\ upload_response = [d \in Docs |-> "<none>"]
    /\ upc = [d \in Docs |-> "not_started"]
    /\ document = [d \in Docs |-> NoRow]
    /\ doc_chunks = [d \in Docs |-> 0]
    /\ result = [d \in Docs |-> NoResult]
    /\ exception = [d \in Docs |-> ""]
    /\ user_collections = [name \in CollectionNames |-> NoCollection]
    /\ effects = [d \in Docs |-> <<>>]

\* views.py lines 98-135: an accepted upload gets the next id, its row is
\* created 'pending', the thread is started and the serialized in-memory
\* document is the response
Create ==
    \E file \in Files, d \in Docs :
        /\ Accepted(file)
        /\ documents[d] = NoRow
        /\ \A e \in Docs : e < d => documents[e] # NoRow
        /\ documents' = [documents EXCEPT ![d] = NewRow(file)]
        /\ upc' = [upc EXCEPT ![d] = "get"]
        /\ upload_response' = [upload_response EXCEPT ![d] = NewRow(file).status]
        /\ UNCHANGED <<document, doc_chunks, result, exception,
                       user_collections, effects>>
        /\ UNCHANGED <<chunkVars, retrieveVars, cleanVars, chatVars, kbVars, ownerVars>>

\* views.py line 146
GetDocument ==
    \E d \in Docs :
        /\ upc[d] = "get"
        /\ \/ /\ document' = [document EXCEPT ![d] = documents[d]]
              /\ upc' = [upc EXCEPT ![d] = "mark"]
              /\ UNCHANGED exception
           \/ /\ exception' = [exception EXCEPT ![d] = "Document.objects.get raised"]
              /\ upc' = [upc EXCEPT ![d] = "handler_get"]
              /\ UNCHANGED document
        /\ UNCHANGED <<documents, upload_response, doc_chunks, result,
                       user_collections, effects>>
        /\ UNCHANGED <<chunkVars, retrieveVars, cleanVars, chatVars, kbVars, ownerVars>>

\* views.py lines 147-148
MarkProcessing ==
    \E d \in Docs :
        /\ upc[d] = "mark"
        /\ document' = [document EXCEPT ![d].status = "processing"]
        /\ \/ /\ documents' = [documents EXCEPT ![d] = document'[d]]
              /\ effects' = [effects EXCEPT ![d] = Append(@, "save processing")]
              /\ upc' = [upc EXCEPT ![d] = "init"]
              /\ UNCHANGED exception
           \/ /\ exception' = [exception EXCEPT ![d] = "document.save raised"]
              /\ upc' = [upc EXCEPT ![d] = "handler_get"]
              /\ UNCHANGED <<documents, effects>>
        /\ UNCHANGED <<upload_response, doc_chunks, result, user_collections>>
        /\ UNCHANGED <<chunkVars, retrieveVars, cleanVars, chatVars, kbVars, ownerVars>>

\* views.py line 151
InitService ==
    \E d \in Docs :
        /\ upc[d] = "init"
        /\ \/ /\ upc' = [upc EXCEPT ![d] = "chunk"]
              /\ UNCHANGED exception
           \/ /\ exception' = [exception EXCEPT ![d] = "NepaliRAGService raised"]
              /\ upc' = [upc EXCEPT ![d] = "handler_get"]
        /\ UNCHANGED <<documents, upload_response, document, doc_chunks, result,
                       user_collections, effects>>
        /\ UNCHANGED <<chunkVars, retrieveVars, cleanVars, chatVars, kbVars, ownerVars>>

\* rag_service.py lines 113-128 and 184-189: the chunking of the document
ChunkDocument ==
    \E d \in Docs :
        /\ upc[d] = "chunk"
        /\ \/ \E n \in 1..MaxChunks :
                 /\ doc_chunks' = [doc_chunks EXCEPT ![d] = n]
                 /\ upc' = [upc EXCEPT ![d] = "embed"]
                 /\ UNCHANGED result
           \/ /\ result' = [result EXCEPT ![d] = Failure(NoChunksGuidance)]
              /\ upc' = [upc EXCEPT ![d] = "record"]
              /\ UNCHANGED doc_chunks
           \/ /\ result' = [result EXCEPT ![d] = Failure("process_pdf_for_rag raised")]
              /\ upc' = [upc EXCEPT ![d] = "record"]
              /\ UNCHANGED doc_chunks
        /\ UNCHANGED <<documents, upload_response, document, exception,
                       user_collections, effects>>
        /\ UNCHANGED <<chunkVars, retrieveVars, cleanVars, chatVars, kbVars, ownerVars>>

\* rag_service.py lines 131 and 184-189
EmbedChunks ==
    \E d \in Docs :
        /\ upc[d] = "embed"
        /\ \/ /\ upc' = [upc EXCEPT ![d] = "store"]
              /\ UNCHANGED result
           \/ /\ result' = [result EXCEPT ![d] = Failure("encode raised")]
              /\ upc' = [upc EXCEPT ![d] = "record"]
        /\ UNCHANGED <<documents, upload_response, document, doc_chunks,
                       exception, user_collections, effects>>
        /\ UNCHANGED <<chunkVars, retrieveVars, cleanVars, chatVars, kbVars, ownerVars>>

\* rag_service.py line 40
PERMANENT_COLLECTION == <<"sevabot_permanent_knowledge">>

\* a variant of add_to_permanent_kb with which an upload is stored as
\* permanent knowledge
add_to_permanent_kb_True == TRUE

\* views.py line 160: the argument _process_document_async passes
add_to_permanent_kb == FALSE

\* rag_service.py lines 134-159 and 176-182: the upsert into the permanent
\* collection and the return value
StorePermanent(d) ==
    /\ \/ /\ result' = [result EXCEPT ![d] = Failure("upsert raised")]
          /\ UNCHANGED permanent_collection
       \/ /\ permanent_collection' =
                 permanent_collection
                   \cup {[id |-> <<d, i>>, source_file |-> documents[d].filename]
                            : i \in 1..doc_chunks[d]}
          /\ result' = [result EXCEPT
                           ![d] = [success |-> TRUE,
                                   collection_id |-> PERMANENT_COLLECTION,
                                   num_chunks |-> doc_chunks[d], error |-> ""]]
    /\ UNCHANGED <<user_collections, effects>>

\* rag_service.py lines 161-182 and 228-281: store_in_user_collection and
\* the return value
StoreUser(d) ==
    /\ \/ /\ result' = [result EXCEPT
                           ![d] = Failure("get_or_create_collection raised")]
          /\ UNCHANGED <<user_collections, effects>>
       \/ /\ user_collections' =
                 [user_collections EXCEPT ![UserCollectionName(d)].exists = TRUE]
          /\ effects' = [effects EXCEPT ![d] = Append(@, "create collection")]
          /\ result' = [result EXCEPT ![d] = Failure("upsert raised")]
       \/ /\ user_collections' =
                 [user_collections EXCEPT
                     ![UserCollectionName(d)] = [exists |-> TRUE,
                             stored |-> @.stored \cup
                                 {<<d, i>> : i \in 1..doc_chunks[d]}]]
          /\ effects' = [effects EXCEPT
                            ![d] = @ \o <<"create collection", "upsert">>]
          /\ result' = [result EXCEPT ![d] = Success(d, doc_chunks[d])]
    /\ UNCHANGED permanent_collection

\* rag_service.py lines 133-182: the chunks are stored in the collection the
\* add_to_permanent_kb argument selects
StoreChunks ==
    \E d \in Docs :
        /\ upc[d] = "store"
        /\ IF add_to_permanent_kb THEN StorePermanent(d) ELSE StoreUser(d)
        /\ upc' = [upc EXCEPT ![d] = "record"]
        /\ UNCHANGED <<documents, upload_response, document, doc_chunks,
                       exception>>
        /\ UNCHANGED <<chunkVars, retrieveVars, cleanVars, chatVars, ownerVars>>
        /\ UNCHANGED <<knowledge_dir, pdf_files, force_reload, kb_loads,
                       uuid_count, kpc>>

\* a variant of Recorded that marks the document 'completed' whatever
\* process_document returned
Recorded_AlwaysCompleted(doc, res) ==
    [doc EXCEPT !.status = "completed",
                !.collection_id = res.collection_id,
                !.num_chunks = res.num_chunks]

\* views.py lines 163-173
Recorded(doc, res) ==
    IF res.success
    THEN [doc EXCEPT !.status = "completed",
                     !.collection_id = res.collection_id,
                     !.num_chunks = res.num_chunks]
    ELSE [doc EXCEPT !.status = "failed", !.error_message = res.error]

\* views.py lines 163-175
RecordResult ==
    \E d \in Docs :
        /\ upc[d] = "record"
        /\ document' = [document EXCEPT ![d] = Recorded(@, result[d])]
        /\ \/ /\ documents' = [documents EXCEPT ![d] = document'[d]]
              /\ effects' = [effects EXCEPT
                                ![d] = Append(@, IF result[d].success
                                                 THEN "save completed"
                                                 ELSE "save failed")]
              /\ upc' = [upc EXCEPT ![d] = "done"]
              /\ UNCHANGED exception
           \/ /\ exception' = [exception EXCEPT ![d] = "document.save raised"]
              /\ upc' = [upc EXCEPT ![d] = "handler_get"]
              /\ UNCHANGED <<documents, effects>>
        /\ UNCHANGED <<upload_response, doc_chunks, result, user_collections>>
        /\ UNCHANGED <<chunkVars, retrieveVars, cleanVars, chatVars, kbVars, ownerVars>>

\* views.py lines 177-180 and 184-185
HandlerGet ==
    \E d \in Docs :
        /\ upc[d] = "handler_get"
        /\ \/ /\ document' = [document EXCEPT ![d] = documents[d]]
              /\ upc' = [upc EXCEPT ![d] = "handler_save"]
           \/ /\ upc' = [upc EXCEPT ![d] = "done"]
              /\ UNCHANGED document
        /\ UNCHANGED <<documents, upload_response, doc_chunks, result,
                       exception, user_collections, effects>>
        /\ UNCHANGED <<chunkVars, retrieveVars, cleanVars, chatVars, kbVars, ownerVars>>

\* views.py lines 181-185
HandlerSave ==
    \E d \in Docs :
        /\ upc[d] = "handler_save"
        /\ document' = [document EXCEPT ![d].status = "failed",
                                        ![d].error_message = exception[d]]
        /\ \/ /\ documents' = [documents EXCEPT ![d] = document'[d]]
              /\ effects' = [effects EXCEPT ![d] = Append(@, "save failed")]
           \/ UNCHANGED <<documents, effects>>
        /\ upc' = [upc EXCEPT ![d] = "done"]
        /\ UNCHANGED <<upload_response, doc_chunks, result, exception,
                       user_collections>>
        /\ UNCHANGED <<chunkVars, retrieveVars, cleanVars, chatVars, kbVars, ownerVars>>

UploadNext ==
    \/ Create
    \/ GetDocument
    \/ MarkProcessing
    \/ InitService
    \/ ChunkDocument
    \/ EmbedChunks
    \/ StoreChunks
    \/ RecordResult
    \/ HandlerGet
    \/ HandlerSave

-----------------------------------------------------------------------------
(* ConversationViewSet.add_message, generate_rag_response and            *)
(* MessageViewSet.update of views.py, on one conversation                 *)

\* request contents; "" stands for an empty or whitespace-only content
Contents == {"", "q1", "q2"}

Completions == {"ok", "raises"}

\* the assistant_response of line 267
Apology == "maph garnuhos, malai ahile uttar dina samasya bhairaheko chha"

\* the string returned at lines 356-360
NoInformation == "malai paryapta jankari chhaina"

\* response.choices[0].message.content of line 399
Answer == "answer"

\* str(e) of the exceptions the answer path can raise
LLMError == "LLM API error"
TypeError == "string indices must be integers"
AttributeError == "no attribute generate_simple_response"

Returned(value) == [kind |-> "return", value |-> value]
Raised(e) == [kind |-> "raise", value |-> e]

\* lines 355-405: without context the function returns a plain string, with
\* context it returns a dict unless the completion call raises, and then the
\* exception is logged and raised again
generate_rag_response(top_chunks, completion) ==
    IF top_chunks = 0
    THEN Returned([type |-> "str", text |-> NoInformation])
    ELSE IF completion = "raises"
         THEN Raised(LLMError)
         ELSE Returned([type |-> "dict", text |-> Answer])

\* response_data['response'] of lines 260 and 484
ResponseOf(outcome) ==
    IF outcome.kind = "raise"
    THEN outcome
    ELSE IF outcome.value.type = "dict"
         THEN Returned(outcome.value.text)
         ELSE Raised(TypeError)

\* whether the completion call of line 381 was reached, and how it ended
CompletionCall(use_rag, top_chunks, completion) ==
    IF use_rag /\ top_chunks > 0 THEN completion ELSE "none"

\* lines 265-268: the except branch of add_message
OnGenerationFailure_ErrorText(e) == e
OnGenerationFailure(e) == Apology

\* lines 253-268; generate_simple_response is defined nowhere
AssistantResponse(use_rag, top_chunks, completion) ==
    LET outcome == IF use_rag
                   THEN ResponseOf(generate_rag_response(top_chunks, completion))
                   ELSE Raised(AttributeError)
    IN  IF outcome.kind = "raise"
        THEN OnGenerationFailure(outcome.value)
        ELSE outcome.value

UserMessage(content) == [role |-> "user", content |-> content]
AssistantMessage(content) == [role |-> "assistant", content |-> content]

NoRequest == [op |-> "none", completion |-> "none"]
\* the error of a body is a sequence of text parts, empty when there is none
NoResponse == [status |-> 0, assistant_message |-> "", error |-> <<>>]
BadRequest(error) == [status |-> 400, assistant_message |-> "", error |-> <<error>>]
Ok(content) == [status |-> 200, assistant_message |-> content, error |-> <<>>]

\* lines 499-503
FailedToGenerate(e) ==
    [status |-> 500, assistant_message |-> "",
     error |-> <<"Failed to generate response: ", e>>]

ChatInit ==
    /\ messages = <<>>
    /\ chat_request = NoRequest
    /\ chat_response = NoResponse

\* lines 212-284
AddMessage ==
    \E content \in Contents, use_rag \in BOOLEAN, top_chunks \in 0..1,
       completion \in Completions :
        /\ Len(messages) + 2 <= MaxMessages
        /\ IF content = ""
           THEN /\ chat_response' = BadRequest("Content cannot be empty")
                /\ chat_request' = [op |-> "add_message", completion |-> "none"]
                /\ UNCHANGED messages
           ELSE LET assistant_response ==
                        AssistantResponse(use_rag, top_chunks, completion)
                IN  /\ messages' = messages \o <<UserMessage(content),
                                     AssistantMessage(assistant_response)>>
                    /\ chat_response' = Ok(assistant_response)
                    /\ chat_request' =
                          [op |-> "add_message",
                           completion |-> CompletionCall(use_rag, top_chunks,
                                                         completion)]
        /\ UNCHANGED <<chunkVars, retrieveVars, cleanVars, uploadVars, kbVars, ownerVars>>

\* lines 457-466: the first assistant message created after message i
NextAssistant(msgs, i) ==
    LET later == {j \in (i + 1)..Len(msgs) : msgs[j].role = "assistant"}
    IN  IF later = {} THEN 0 ELSE CHOOSE j \in later : \A k \in later : j <= k

Without(msgs, j) ==
    IF j = 0 THEN msgs ELSE SubSeq(msgs, 1, j - 1) \o SubSeq(msgs, j + 1, Len(msgs))

\* lines 430-503
Update ==
    \E i \in 1..Len(messages), new_content \in Contents, top_chunks \in 0..1,
       completion \in Completions :
        IF messages[i].role # "user"
        THEN /\ chat_response' = BadRequest("Only user messages can be edited")
             /\ chat_request' = [op |-> "update", completion |-> "none"]
             /\ UNCHANGED messages
             /\ UNCHANGED <<chunkVars, retrieveVars, cleanVars, uploadVars, kbVars, ownerVars>>
        ELSE IF new_content = ""
        THEN /\ chat_response' = BadRequest("Content cannot be empty")
             /\ chat_request' = [op |-> "update", completion |-> "none"]
             /\ UNCHANGED messages
             /\ UNCHANGED <<chunkVars, retrieveVars, cleanVars, uploadVars, kbVars, ownerVars>>
        ELSE LET edited == [messages EXCEPT ![i].content = new_content]
                 kept == Without(edited, NextAssistant(edited, i))
                 outcome == ResponseOf(generate_rag_response(top_chunks,
                                                             completion))
             IN  /\ IF outcome.kind = "return"
                    THEN /\ messages' = Append(kept, AssistantMessage(outcome.value))
                         /\ chat_response' = Ok(outcome.value)
                    ELSE /\ messages' = kept
                         /\ chat_response' = FailedToGenerate(outcome.value)
                 /\ chat_request' =
                       [op |-> "update",
                        completion |-> CompletionCall(TRUE, top_chunks, completion)]
                 /\ UNCHANGED <<chunkVars, retrieveVars, cleanVars, uploadVars, kbVars, ownerVars>>

ChatNext ==
    \/ AddMessage
    \/ Update

-----------------------------------------------------------------------------
(* SevaBot_RAG_Service.load_permanent_knowledge on one directory, and the  *)
(* permanent branch of process_document.  A chunk of the collection is its *)
(* id and its source_file; the ids are those of uuid4, never drawn twice.  *)

\* knowledge_dir.glob("*.pdf")
KbFiles == {<<"k1", ".", "p", "d", "f">>, <<"k2", ".", "p", "d", "f">>}

\* rag_service.py lines 134-159: the chunks of one file as they are upserted,
\* with the n ids drawn after the first `drawn` ones
PermanentChunks(file, n, drawn) ==
    {[id |-> <<0, drawn + i>>, source_file |-> file] : i \in 1..n}

\* a variant of AlreadyProcessed that finds no file
AlreadyProcessed_Never(file) == FALSE

\* lines 318-325: the collection holds a chunk with this source_file
AlreadyProcessed(file) ==
    \E c \in permanent_collection : c.source_file = file

KbIdle ==
    /\ permanent_collection = {}
    /\ knowledge_dir = [file \in KbFiles |-> 0]
    /\ pdf_files = {} /\ force_reload = FALSE
    /\ kb_loads = 0 /\ uuid_count = 0 /\ kpc = "idle"

\* the state a first load leaves that stored the one chunk of the first file
KbLoaded ==
    /\ permanent_collection
         = PermanentChunks(<<"k1", ".", "p", "d", "f">>, 1, 0)
    /\ knowledge_dir
         = [file \in KbFiles |-> IF file = <<"k1", ".", "p", "d", "f">> THEN 1 ELSE 0]
    /\ pdf_files = {} /\ force_reload = FALSE
    /\ kb_loads = 1 /\ uuid_count = 1 /\ kpc = "idle"

KbInit ==
    /\ permanent_collection = {}
    /\ knowledge_dir \in [KbFiles -> 0..MaxChunks]
    /\ pdf_files = {} /\ force_reload = FALSE
    /\ kb_loads = 0 /\ uuid_count = 0 /\ kpc = "idle"

\* lines 292-299: a load starts; with force_reload the collection is deleted
\* and created again
StartLoad ==
    /\ kpc = "idle"
    /\ kb_loads < MaxLoads
    /\ \E force \in BOOLEAN :
          /\ force_reload' = force
          /\ permanent_collection' = IF force THEN {} ELSE permanent_collection
    /\ pdf_files' = KbFiles
    /\ kb_loads' = kb_loads + 1
    /\ kpc' = "loading"
    /\ UNCHANGED <<knowledge_dir, uuid_count>>
    /\ UNCHANGED <<chunkVars, retrieveVars, cleanVars, uploadVars, chatVars, ownerVars>>

\* lines 314-339: one round of the loop over the files.  The file is skipped
\* when it is found in the collection; otherwise process_document chunks it,
\* and either upserts its chunks or fails (no chunks, or an exception of the
\* embedding or of the upsert, caught at lines 184-189); an exception of the
\* lookup itself is caught at line 338 and the file is left out
LoadFile ==
    /\ kpc = "loading"
    /\ \E file \in pdf_files :
          /\ pdf_files' = pdf_files \ {file}
          /\ IF ~force_reload /\ AlreadyProcessed(file)
             THEN UNCHANGED <<permanent_collection, uuid_count>>
             ELSE \/ /\ ~force_reload
                     /\ UNCHANGED <<permanent_collection, uuid_count>>
                  \/ /\ uuid_count' = uuid_count + knowledge_dir[file]
                     /\ \E upserted \in BOOLEAN :
                           permanent_collection' =
                               IF upserted
                               THEN permanent_collection
                                      \cup PermanentChunks(file, knowledge_dir[file],
                                                           uuid_count)
                               ELSE permanent_collection
    /\ UNCHANGED <<knowledge_dir, force_reload, kb_loads, kpc>>
    /\ UNCHANGED <<chunkVars, retrieveVars, cleanVars, uploadVars, chatVars, ownerVars>>

\* lines 341-342: every file was visited
FinishLoad ==
    /\ kpc = "loading"
    /\ pdf_files = {}
    /\ kpc' = "idle"
    /\ UNCHANGED <<permanent_collection, knowledge_dir, pdf_files, force_reload,
                   kb_loads, uuid_count>>
    /\ UNCHANGED <<chunkVars, retrieveVars, cleanVars, uploadVars, chatVars, ownerVars>>

KbNext == StartLoad \/ LoadFile \/ FinishLoad

-----------------------------------------------------------------------------
(* Uploads and answers by owner: DocumentViewSet.create and the choice of  *)
(* the collections generate_rag_response searches.  User u owns the one    *)
(* conversation u; the background task of an upload is one step here.      *)

Users == 1..2

\* get_queryset of ConversationViewSet (views.py lines 198-199): the
\* conversations a request of the user can address
OwnConversations(user) == {user}

NoDocument == [user |-> 0, conversation |-> 0, status |-> "<no row>"]

OwnerInit ==
    /\ doc_rows = [d \in Docs |-> NoDocument]
    /\ searched = {}

\* views.py lines 98-125: the row gets request.user and the conversation_id
\* of the request as it came, 0 standing for none
CreateFor ==
    \E user \in Users, conversation_id \in {0} \cup Users, d \in Docs :
        /\ doc_rows[d] = NoDocument
        /\ \A e \in Docs : e < d => doc_rows[e] # NoDocument
        /\ doc_rows' = [doc_rows EXCEPT
                           ![d] = [user |-> user, conversation |-> conversation_id,
                                   status |-> "pending"]]
        /\ UNCHANGED searched
        /\ UNCHANGED <<chunkVars, retrieveVars, cleanVars, uploadVars, chatVars,
                       kbVars>>

\* views.py lines 137-185: the background task ends 'completed', with the
\* collection of the document stored, or 'failed'
Processed ==
    \E d \in Docs, status \in {"completed", "failed"} :
        /\ doc_rows[d].status = "pending"
        /\ doc_rows' = [doc_rows EXCEPT ![d].status = status]
        /\ UNCHANGED searched
        /\ UNCHANGED <<chunkVars, retrieveVars, cleanVars, uploadVars, chatVars,
                       kbVars>>

\* conversation.documents.filter(status='completed')
ConversationDocuments(conversation) ==
    {d \in Docs : doc_rows[d].conversation = conversation
                    /\ doc_rows[d].status = "completed"}

\* Document.objects.filter(user=self.request.user, status='completed')
UserDocuments(user) ==
    {d \in Docs : doc_rows[d].user = user /\ doc_rows[d].status = "completed"}

\* views.py lines 316-336: the documents whose collection is queried
SearchedDocuments(user, conversation, search_source) ==
    IF search_source \in {"user", "all"}
    THEN IF ConversationDocuments(conversation) # {}
         THEN ConversationDocuments(conversation)
         ELSE UserDocuments(user)
    ELSE {}

\* views.py lines 212-259 and 288-349: a message in a conversation of the
\* user is answered
AnswerFor ==
    \E user \in Users, search_source \in {"permanent", "user", "all"} :
        \E conversation \in OwnConversations(user) :
            /\ searched' = searched \cup
                  {<<user, d>> :
                      d \in SearchedDocuments(user, conversation, search_source)}
            /\ UNCHANGED doc_rows
            /\ UNCHANGED <<chunkVars, retrieveVars, cleanVars, uploadVars,
                           chatVars, kbVars>>

OwnerNext == CreateFor \/ Processed \/ AnswerFor

-----------------------------------------------------------------------------
(* Specifications *)

ChunkIdle ==
    /\ max_chunk_tokens = 0 /\ page_num = -1 /\ page_ok = FALSE
    /\ input = <<>> /\ chunks = <<>>
    /\ current_chapter = Unknown /\ current_dafa = Intro
    /\ current_upa_dafa = None /\ current_text_lines = <<>>
    /\ current_page_idx = 1 /\ cpc = "idle"

\* one run of process_pdf_for_rag
Init == ChunkInit /\ RetrieveIdle /\ CleanIdle /\ UploadInit /\ ChatInit /\ KbIdle /\ OwnerInit
Spec == Init /\ [][ChunkNext]_vars

\* one run of process_pdf_for_rag with the budget of process_document
InitDefault == ChunkInitDefault /\ RetrieveIdle /\ CleanIdle /\ UploadInit /\ ChatInit /\ KbIdle /\ OwnerInit
SpecDefault == InitDefault /\ [][ChunkNext]_vars

\* one call of retrieve_context
InitRetrieve == RetrieveInit /\ ChunkIdle /\ CleanIdle /\ UploadInit /\ ChatInit /\ KbIdle /\ OwnerInit
SpecRetrieve == InitRetrieve /\ [][RetrieveNext]_vars

\* clean_text on one text
InitClean == CleanInit /\ ChunkIdle /\ RetrieveIdle /\ UploadInit /\ ChatInit /\ KbIdle /\ OwnerInit
SpecClean == InitClean /\ [][CleanNext]_vars

\* uploads and their background tasks, after the permanent knowledge base
\* was loaded
InitUpload == UploadInit /\ ChunkIdle /\ RetrieveIdle /\ CleanIdle /\ ChatInit /\ KbLoaded /\ OwnerInit
SpecUpload == InitUpload /\ [][UploadNext]_vars

\* requests on one conversation, one at a time
InitChat == ChatInit /\ ChunkIdle /\ RetrieveIdle /\ CleanIdle /\ UploadInit /\ KbIdle /\ OwnerInit
SpecChat == InitChat /\ [][ChatNext]_vars

\* loads of the permanent knowledge base, one at a time
InitKb == KbInit /\ ChunkIdle /\ RetrieveIdle /\ CleanIdle /\ UploadInit /\ ChatInit /\ OwnerInit
SpecKb == InitKb /\ [][KbNext]_vars

\* uploads and answers of two users
InitOwner == OwnerInit /\ ChunkIdle /\ RetrieveIdle /\ CleanIdle /\ UploadInit /\ ChatInit /\ KbIdle
SpecOwner == InitOwner /\ [][OwnerNext]_vars

-----------------------------------------------------------------------------
(* Properties of the chunker *)

RECURSIVE WordsFrom(_, _, _)
WordsFrom(text, i, word) ==
    IF i > Len(text) THEN (IF word = <<>> THEN <<>> ELSE <<word>>)
    ELSE IF text[i] \in Whitespace \cup SentenceTerminators
         THEN (IF word = <<>> THEN <<>> ELSE <<word>>) \o WordsFrom(text, i + 1, <<>>)
         ELSE WordsFrom(text, i + 1, Append(word, text[i]))

\* the words of a text: its maximal runs of characters that are neither white
\* space nor a sentence terminator
Words(text) == WordsFrom(text, 1, <<>>)

\* the lines of a text, text.split('\n')
RECURSIVE LinesFrom(_, _, _)
LinesFrom(text, i, line) ==
    IF i > Len(text) THEN <<line>>
    ELSE IF text[i] = "NL" THEN <<line>> \o LinesFrom(text, i + 1, <<>>)
         ELSE LinesFrom(text, i + 1, Append(line, text[i]))

IsNoise(raw) == Strip(raw) = <<>> \/ is_garbage_line(Strip(raw))

\* the input lines with blank and noise lines removed, stripped
RECURSIVE ContentLines(_)
ContentLines(in) ==
    IF in = <<>> THEN <<>>
    ELSE (IF IsNoise(Head(in)[2]) THEN <<>> ELSE <<Strip(Head(in)[2])>>)
         \o ContentLines(Tail(in))

\* the texts that were emitted, in emission order, then the lines of the unit
\* still being built
EmittedTexts ==
    [i \in 1..Len(chunks) |-> chunks[i].text]
    \o (IF cpc = "reading" THEN current_text_lines ELSE <<>>)

AllComplete == \A i \in 1..Len(chunks) : chunks[i].chunk_type = "complete_section"

\* C1: no data loss across flush.  In every state the texts of the emitted
\* chunks, read in emission order and followed by the lines still buffered,
\* hold exactly the words of the input's content lines (blank and noise lines
\* removed), in input order, none dropped and none duplicated; and as long as
\* no unit went through the splitter, which rewrites the separators between
\* sentences, they are the content lines themselves, line for line.
C1_NoDataLoss ==
    /\ Concat([i \in 1..Len(EmittedTexts) |-> Words(EmittedTexts[i])])
         = Concat([i \in 1..Len(ContentLines(input)) |-> Words(ContentLines(input)[i])])
    /\ AllComplete =>
         Concat([i \in 1..Len(EmittedTexts) |-> LinesFrom(EmittedTexts[i], 1, <<>>)])
           = ContentLines(input)

\* a finished document with a noise line, a unit that was split and a unit
\* that was saved whole
C1_Witness ==
    /\ cpc = "done"
    /\ Len(ContentLines(input)) = 2 /\ Len(input) = 3
    /\ \E i \in 1..Len(chunks) : chunks[i].chunk_type = "split_section"
    /\ \E i \in 1..Len(chunks) : chunks[i].chunk_type = "complete_section"

\* the sentences of a chunk text
Sentences(text) == SelectSeq(SplitSentences(text), LAMBDA x : Strip(x) # <<>>)

\* C2: size governor bound.  Every complete chunk has floor(len(text)/4) within
\* the budget, and so has every split chunk except one that consists of a
\* single sentence; the recorded estimate is that of the text.
C2_SizeBound ==
    \A i \in 1..Len(chunks) :
        /\ chunks[i].estimated_tokens = Len(chunks[i].text) \div 4
        /\ \/ Len(chunks[i].text) \div 4 <= max_chunk_tokens
           \/ /\ chunks[i].chunk_type = "split_section"
              /\ Len(Sentences(chunks[i].text)) = 1

\* a split unit with a part of several sentences within the budget and a part
\* that is one sentence above the budget, after a complete chunk
C2_Witness ==
    /\ cpc = "done"
    /\ \E i \in 1..Len(chunks) :
         /\ chunks[i].chunk_type = "split_section"
         /\ Len(Sentences(chunks[i].text)) > 1
         /\ Len(chunks[i].text) \div 4 <= max_chunk_tokens
    /\ \E i \in 1..Len(chunks) :
         /\ chunks[i].chunk_type = "split_section"
         /\ Len(Sentences(chunks[i].text)) = 1
         /\ Len(chunks[i].text) \div 4 > max_chunk_tokens
    /\ \E i \in 1..Len(chunks) :
         /\ chunks[i].chunk_type = "complete_section"
         /\ Len(chunks[i].text) \div 4 = max_chunk_tokens

\* the line begins with native numerals and a period
NumeralPeriodStart(line) ==
    \E e \in 2..Len(line) :
        /\ \A i \in 1..(e - 1) : line[i] \in NepaliNumerals
        /\ line[e] = "."

\* the line holds a parenthesized native numeral somewhere
HasParenNumeral(line) == \E i \in 1..Len(line) : ParenNumeral(line, i) # None

\* the first pattern that matches, in the order Chapter, Article, Section,
\* Sub-Article
FirstMatch(line) ==
    IF chapter_pattern(line) # None THEN "chapter"
    ELSE IF dafa_pattern(line) # None THEN "article"
    ELSE IF section_pattern(line) # None THEN "section"
    ELSE IF upa_dafa_pattern(line) # None THEN "sub_article"
    ELSE "content"

\* what a step does to the unit being built, by the kind of line it handled
HandledAs(kind, line) ==
    CASE kind = "chapter" ->
           /\ chunks' = chunks \o Flush
           /\ current_dafa' = Header /\ current_upa_dafa' = None
           /\ current_text_lines' = <<line>>
           /\ SubSeq(current_chapter', 1, Len(Parichhed)) = Parichhed
      [] kind \in {"article", "section"} ->
           /\ chunks' = chunks \o Flush
           /\ SubSeq(current_dafa', 1, Len(Dafa)) = Dafa
           /\ current_upa_dafa' = None
           /\ current_text_lines' = <<line>>
           /\ current_chapter' = current_chapter
      [] kind = "sub_article" ->
           /\ current_upa_dafa' # None
           /\ current_text_lines'[Len(current_text_lines')] = line
           /\ current_chapter' = current_chapter /\ current_dafa' = current_dafa
      [] kind = "content" ->
           /\ chunks' = chunks
           /\ current_text_lines' = Append(current_text_lines, line)
           /\ current_chapter' = current_chapter /\ current_dafa' = current_dafa
           /\ current_upa_dafa' = current_upa_dafa

\* C10: boundary precedence.  Every content line is handled as the first of
\* Chapter, Article, Section, Sub-Article that matches it, a line matching
\* none as ordinary content; and a line that begins with a numeral and a
\* period and also holds a parenthesized numeral is handled as Section: it
\* closes the article-level unit and leaves no sub-article open.
C10_Precedence ==
    [][\A raw \in Lines :
          (ProcessLine(raw) /\ ~IsNoise(raw)) =>
              /\ HandledAs(FirstMatch(Strip(raw)), Strip(raw))
              /\ (NumeralPeriodStart(Strip(raw)) /\ HasParenNumeral(Strip(raw)))
                    => HandledAs("section", Strip(raw))]_vars

\* the section line with parentheses was the last line read and opened an
\* article-level unit
C10_Witness ==
    /\ cpc = "reading" /\ Len(input) = 3
    /\ NumeralPeriodStart(Strip(input[3][2])) /\ HasParenNumeral(Strip(input[3][2]))
    /\ current_text_lines = <<Strip(input[3][2])>>
    /\ current_dafa = DafaLabel(<<"n2">>)
    /\ current_upa_dafa = None
    /\ upa_dafa_pattern(Strip(input[2][2])) # None

\* the breadcrumb of a chunk's own labels
Breadcrumb(c) ==
    c.chapter
    \o (IF c.dafa \in {Intro, Header} THEN <<>> ELSE <<" ", ">", " ">> \o c.dafa)
    \o (IF c.upa_dafa = <<>> THEN <<>> ELSE <<" ", ">", " ">> \o c.upa_dafa)

ExampleChapterLine == Parichhed \o <<"endash", "n1">>
ExampleArticleLine == Dafa \o <<" ", "n1", " ", "ga", "ma", "dan">>

\* the document [chapter-1 header line, article-1 line, one content line]
ExampleDocument ==
    /\ Len(input) = 3
    /\ input[1][2] = ExampleChapterLine
    /\ input[2][2] = ExampleArticleLine
    /\ ~IsNoise(input[3][2])
    /\ FirstMatch(Strip(input[3][2])) = "content"

\* C11: the hierarchical title of every chunk of a unit saved whole is the
\* chapter label, then the article label unless it is "Intro" or "Header",
\* then the sub-article label if one is open, joined by " > " (a part of a
\* split unit carries that title followed by its part number); and the
\* document [chapter-1 header, article-1 line, content line] read with the
\* budget 800 ends as exactly two complete chunks, the first titled with the
\* chapter label alone and holding the header line, the second titled
\* "<chapter> > <article>" and holding the other two lines.
C11_HierarchicalTitle ==
    /\ \A i \in 1..Len(chunks) :
          IF chunks[i].chunk_type = "complete_section"
          THEN chunks[i].hierarchical_title = Breadcrumb(chunks[i])
          ELSE chunks[i].hierarchical_title
                 = PartTitle(Breadcrumb(chunks[i]), chunks[i].part_number)
    /\ (cpc = "done" /\ max_chunk_tokens = DefaultBudget /\ ExampleDocument) =>
          /\ Len(chunks) = 2
          /\ chunks[1].chunk_type = "complete_section"
          /\ chunks[1].hierarchical_title = Parichhed \o <<"endash", "n1">>
          /\ chunks[1].text = ExampleChapterLine
          /\ chunks[2].chunk_type = "complete_section"
          /\ chunks[2].hierarchical_title =
                 Parichhed \o <<"endash", "n1", " ", ">", " ">>
                 \o Dafa \o <<" ", "n1">>
          /\ chunks[2].text =
                 ExampleArticleLine \o <<"NL">> \o Strip(input[3][2])

\* the example document was read to its end and gave its two chunks
C11_Witness ==
    /\ cpc = "done" /\ max_chunk_tokens = DefaultBudget /\ ExampleDocument
    /\ Len(chunks) = 2
    /\ chunks[1].hierarchical_title = chunks[1].chapter
    /\ chunks[2].hierarchical_title # chunks[2].chapter
    /\ Len(chunks[2].text) > Len(ExampleArticleLine)

\* the chunks a step appended to the list
Appended == SubSeq(chunks', Len(chunks) + 1, Len(chunks'))

\* the chunk carries the labels and the page of the context before the step
UnderContext(c) ==
    /\ c.chapter = current_chapter
    /\ c.dafa = current_dafa
    /\ c.upa_dafa = (IF current_upa_dafa = None THEN <<>> ELSE current_upa_dafa)
    /\ c.page = current_page_idx

\* the step left the earlier chunks alone and appended what the unit built so
\* far gives, every chunk of it under the context the unit was built with
FlushedFirst ==
    /\ Len(chunks') >= Len(chunks)
    /\ SubSeq(chunks', 1, Len(chunks)) = chunks
    /\ Appended = save_chunk_for_rag(current_text_lines, current_chapter,
                                     current_dafa, current_upa_dafa,
                                     current_page_idx, max_chunk_tokens)
    /\ \A i \in 1..Len(Appended) : UnderContext(Appended[i])

\* the context of lines 163-167
InitialContext ==
    /\ current_chapter = Unknown /\ current_dafa = Intro
    /\ current_upa_dafa = None /\ current_text_lines = <<>>
    /\ current_page_idx = 1

\* C16: the run starts from chapter "Unknown", article "Intro", no
\* sub-article, an empty buffer and page 1; and on a line that matches
\* Chapter, in every state, the unit accumulated so far is flushed first
\* under the labels and the page it was built with, and afterwards the
\* chapter is the keyword, an en dash and the captured numeral, the article
\* is "Header", no sub-article is open, the buffer holds this line alone and
\* the page is the current page.
C16_ChapterLine ==
    [][/\ input = <<>> => InitialContext
       /\ \A raw \in Lines :
             (ProcessLine(raw) /\ ~IsNoise(raw)
                 /\ chapter_pattern(Strip(raw)) # None) =>
                 /\ FlushedFirst
                 /\ current_chapter'
                      = Parichhed \o <<"endash">> \o chapter_pattern(Strip(raw))
                 /\ current_dafa' = Header
                 /\ current_upa_dafa' = None
                 /\ current_text_lines' = <<Strip(raw)>>
                 /\ current_page_idx' = page_num + 1]_vars

\* a chapter line read on the second page closed a unit built on the first
C16_Witness ==
    /\ cpc = "reading" /\ Len(input) = 2 /\ page_num = 1
    /\ chapter_pattern(Strip(input[2][2])) # None
    /\ Len(chunks) = 1 /\ chunks[1].page = 1 /\ chunks[1].dafa # Intro
    /\ current_dafa = Header /\ current_page_idx = 2
    /\ current_text_lines = <<Strip(input[2][2])>>

\* the numeral an Article or Section line captures
ArticleNumeral(line) ==
    IF dafa_pattern(line) # None THEN dafa_pattern(line) ELSE section_pattern(line)

\* C17: on a line that matches Article or Section and not Chapter, the unit
\* accumulated so far is flushed first, and afterwards the article is the
\* article keyword, a blank and the captured numeral (the same label for an
\* Article and a Section line with the same numeral), no sub-article is open,
\* the buffer holds this line alone, the page is the current page and the
\* chapter is the one it was.
C17_ArticleLine ==
    [][\A raw \in Lines :
          (ProcessLine(raw) /\ ~IsNoise(raw)
              /\ chapter_pattern(Strip(raw)) = None
              /\ ArticleNumeral(Strip(raw)) # None) =>
              /\ FlushedFirst
              /\ current_dafa' = Dafa \o <<" ">> \o ArticleNumeral(Strip(raw))
              /\ current_upa_dafa' = None
              /\ current_text_lines' = <<Strip(raw)>>
              /\ current_page_idx' = page_num + 1
              /\ current_chapter' = current_chapter]_vars

\* under a chapter, a Section line read on the second page closed the unit of
\* an Article line read on the first
C17_Witness ==
    /\ cpc = "reading" /\ Len(input) = 3 /\ page_num = 1
    /\ chapter_pattern(Strip(input[1][2])) # None
    /\ dafa_pattern(Strip(input[2][2])) # None /\ input[2][1] = 0
    /\ section_pattern(Strip(input[3][2])) # None
    /\ Len(chunks) = 2 /\ chunks[2].dafa = Dafa \o <<" ", "n1">>
    /\ current_chapter = chunks[1].chapter
    /\ current_dafa = Dafa \o <<" ", "n2">>
    /\ current_page_idx = 2

\* C18: on a line that matches Sub-Article (and none of Chapter, Article,
\* Section), the buffer is flushed, as the sub-unit under the old sub-article
\* label, and restarted empty only if a sub-article is already open; if none
\* is open nothing is emitted and the lines accumulated so far stay in the
\* buffer; in both cases the sub-article becomes the captured numeral in
\* parentheses, the line is appended, and chapter and article are unchanged.
C18_SubArticleLine ==
    [][\A raw \in Lines :
          (ProcessLine(raw) /\ ~IsNoise(raw)
              /\ FirstMatch(Strip(raw)) = "sub_article") =>
              /\ IF current_upa_dafa # None
                 THEN /\ FlushedFirst
                      /\ current_text_lines' = <<Strip(raw)>>
                 ELSE /\ chunks' = chunks
                      /\ current_text_lines'
                           = Append(current_text_lines, Strip(raw))
              /\ current_upa_dafa'
                   = <<"(">> \o upa_dafa_pattern(Strip(raw)) \o <<")">>
              /\ current_chapter' = current_chapter
              /\ current_dafa' = current_dafa]_vars

\* an article line, a first sub-article line that joined the article line in
\* the buffer, and a second sub-article line that closed that sub-unit, whose
\* text begins with the article line
C18_Witness ==
    /\ cpc = "reading" /\ Len(input) = 3
    /\ dafa_pattern(Strip(input[1][2])) # None
    /\ FirstMatch(Strip(input[2][2])) = "sub_article"
    /\ FirstMatch(Strip(input[3][2])) = "sub_article"
    /\ Len(chunks) >= 1
    /\ \A i \in 1..Len(chunks) : chunks[i].upa_dafa = <<"(", "n1", ")">>
    /\ SubSeq(chunks[1].text, 1, Len(Dafa)) = Dafa
    /\ current_upa_dafa = <<"(", "n2", ")">>
    /\ current_text_lines = <<Strip(input[3][2])>>

\* the line opens a new unit: a Chapter, Article or Section line, or a
\* Sub-Article line that closes an open sub-unit
OpensUnit(line) ==
    \/ FirstMatch(line) \in {"chapter", "article", "section"}
    \/ FirstMatch(line) = "sub_article" /\ current_upa_dafa # None

\* C19: the context's page is set to the current page index whenever a new
\* unit is opened, also a sub-article unit opened after the previous sub-unit
\* was flushed, and is never changed by content lines; every emitted chunk
\* carries the context's page, the index of the page on which its unit was
\* opened.
C19_PageOfOpening ==
    [][\A raw \in Lines :
          (ProcessLine(raw) /\ ~IsNoise(raw)) =>
              /\ OpensUnit(Strip(raw)) => current_page_idx' = page_num + 1
              /\ FirstMatch(Strip(raw)) = "content"
                    => current_page_idx' = current_page_idx
              /\ \A i \in 1..Len(Appended) :
                    Appended[i].page = current_page_idx]_vars

\* the buffer holds nothing, or white space only
BufferBlank == Strip(Join(<<"NL">>, current_text_lines)) = <<>>

\* C20: a flush with an empty or whitespace-only buffer emits nothing, in
\* every state; the final flush at the end of the document emits the last
\* unit when it has content; and every chunk ever emitted has non-empty
\* stripped text.
C20_FlushEmits ==
    [][/\ BufferBlank => chunks' = chunks
       /\ (FinishPdf /\ ~BufferBlank) => Len(chunks') > Len(chunks)
       /\ \A i \in 1..Len(chunks') : Strip(chunks'[i].text) # <<>>]_vars

\* the step flushes the unit built so far: a line that opens a unit, or the
\* end of the document
FlushStep ==
    \/ \E raw \in Lines :
          ProcessLine(raw) /\ ~IsNoise(raw) /\ OpensUnit(Strip(raw))
    \/ FinishPdf

\* the text of the unit built so far: its lines joined by line breaks
UnitText == Join(<<"NL">>, current_text_lines)

\* C21: a flushed non-empty unit whose estimate, the length of its text
\* divided by four and rounded down, is at most the budget yields exactly one
\* chunk, of the complete type, whose text is the unit's joined lines and
\* which carries no part index; a unit whose estimate is above the budget
\* yields only chunks of the split type, each with a part index.
C21_CompleteOrSplit ==
    [][(FlushStep /\ ~BufferBlank) =>
          IF Len(UnitText) \div 4 <= max_chunk_tokens
          THEN /\ Len(Appended) = 1
               /\ Appended[1].chunk_type = "complete_section"
               /\ Appended[1].text = UnitText
               /\ "part_number" \notin DOMAIN Appended[1]
          ELSE \A i \in 1..Len(Appended) :
                  /\ Appended[i].chunk_type = "split_section"
                  /\ "part_number" \in DOMAIN Appended[i]
                  /\ Appended[i].part_number >= 1]_vars

\* a unit whose estimate equals the budget was saved whole, and a later unit
\* above the budget went to the splitter
C21_Witness ==
    /\ cpc = "done" /\ Len(chunks) >= 2
    /\ chunks[1].chunk_type = "complete_section"
    /\ Len(chunks[1].text) \div 4 = max_chunk_tokens
    /\ chunks[Len(chunks)].chunk_type = "split_section"
    /\ chunks[Len(chunks)].dafa # chunks[1].dafa

\* the text holds no sentence terminator
NoTerminator(text) == \A i \in 1..Len(text) : text[i] \notin SentenceTerminators

\* C22: an over-budget unit is never dropped by the splitter: every
\* non-empty unit above the budget produces at least one chunk, and a unit in
\* which no terminator is found is emitted as one split chunk that holds its
\* entire text, whatever its size.
C22_NeverDropped ==
    [][(FlushStep /\ ~BufferBlank /\ Len(UnitText) \div 4 > max_chunk_tokens) =>
          /\ Len(Appended) >= 1
          /\ NoTerminator(UnitText) =>
                /\ Len(Appended) = 1
                /\ Appended[1].chunk_type = "split_section"
                /\ SubSeq(Appended[1].text, 1, Len(UnitText)) = UnitText]_vars

\* the sentences of a text, each without its surrounding white space
StrippedSentences(text) ==
    [i \in 1..Len(Sentences(text)) |-> Strip(Sentences(text)[i])]

\* C23: the split chunks of one over-budget unit carry the part numbers
\* 1, 2, ..., n in emission order; each chunk's title is the unit's
\* hierarchical title followed by its part suffix; every part consists of
\* whole sentences, the parts read in order holding exactly the sentences of
\* the unit, none cut and none repeated; and all parts carry the unit's
\* chapter, article, sub-article and page.
C23_PartsOfUnit ==
    [][(FlushStep /\ ~BufferBlank /\ Len(UnitText) \div 4 > max_chunk_tokens) =>
          /\ \A i \in 1..Len(Appended) :
                /\ Appended[i].part_number = i
                /\ Appended[i].hierarchical_title
                     = Breadcrumb(Appended[i])
                         \o <<" ", "(", "bha", "maa", "ga", " ">> \o Dec(i) \o <<")">>
                /\ UnderContext(Appended[i])
                /\ Appended[i].text[Len(Appended[i].text)] \in SentenceTerminators
          /\ Concat([i \in 1..Len(Appended) |-> StrippedSentences(Appended[i].text)])
               = StrippedSentences(UnitText)]_vars

\* a unit was split into at least two parts, the second of them holding
\* sentences the first does not
C23_Witness ==
    /\ cpc = "done" /\ Len(chunks) >= 2
    /\ chunks[1].chunk_type = "split_section" /\ chunks[1].part_number = 1
    /\ chunks[2].chunk_type = "split_section" /\ chunks[2].part_number = 2
    /\ chunks[2].dafa = chunks[1].dafa /\ chunks[2].page = chunks[1].page
    /\ StrippedSentences(chunks[1].text) # StrippedSentences(chunks[2].text)

\* the segmentation context and the chunks emitted so far
Segmentation ==
    <<current_chapter, current_dafa, current_upa_dafa, current_text_lines,
      current_page_idx, chunks>>

\* the page being read raised during extraction or repair
PageFailed == page_num >= 0 /\ ~page_ok

\* C26: if the extraction or repair of a page raises, no exception leaves
\* process_pdf_for_rag: turning to a page, readable or not, changes neither
\* the context (chapter, article, sub-article, buffer, page) nor the chunks;
\* no line of a page that raised is read; and the loop goes on, to the next
\* page when there is one and to the final flush otherwise.
C26_PageSkipped ==
    [][/\ cpc' \in {"reading", "done"}
       /\ page_num' # page_num =>
             /\ Segmentation' = Segmentation
             /\ cpc' = "reading"
       /\ PageFailed =>
             /\ input' = input
             /\ \/ page_num' = page_num + 1 /\ Segmentation' = Segmentation
                \/ cpc' = "done" /\ chunks' = chunks \o Flush]_vars

\* the second page raised after lines of the first were read: the unit being
\* built and the chunks are those the first page left
C26_Witness ==
    /\ cpc = "reading" /\ page_num = 1 /\ ~page_ok
    /\ Len(input) = 3 /\ \A i \in 1..3 : input[i][1] = 0
    /\ Len(chunks) >= 1 /\ current_text_lines # <<>>
    /\ current_dafa # Intro /\ current_page_idx = 1

\* the indices of the sub-article marker lines among the lines of a unit
Markers(lines) == {i \in 1..Len(lines) : FirstMatch(lines[i]) = "sub_article"}

\* a unit, as its lines and its sub-article label (empty for none): a header
\* line only in first place, at most one marker line, and the label that of
\* the marker line
UnitWellFormed(lines, label) ==
    /\ \A i \in 2..Len(lines) :
          FirstMatch(lines[i]) \notin {"chapter", "article", "section"}
    /\ Cardinality(Markers(lines)) <= 1
    /\ \A i \in Markers(lines) :
          label = <<"(">> \o upa_dafa_pattern(lines[i]) \o <<")">>
    /\ label = <<>> <=> Markers(lines) = {}

\* C30: every flushed unit, the one being built as well as each unit saved
\* whole, holds at most one chapter, article or section header line, which
\* is then its first line, and at most one sub-article marker line; its
\* sub-article label is the label of that marker line and is empty exactly
\* when the unit holds no marker line.
C30_UnitShape ==
    /\ UnitWellFormed(current_text_lines,
                      IF current_upa_dafa = None THEN <<>> ELSE current_upa_dafa)
    /\ \A i \in 1..Len(chunks) :
          chunks[i].chunk_type = "complete_section" =>
              UnitWellFormed(LinesFrom(chunks[i].text, 1, <<>>), chunks[i].upa_dafa)

\* an article line and a first marker line saved as one unit, closed by a
\* second marker line that is a unit of its own
C30_Witness ==
    /\ cpc = "done" /\ Len(chunks) = 2
    /\ Len(LinesFrom(chunks[1].text, 1, <<>>)) = 2
    /\ FirstMatch(LinesFrom(chunks[1].text, 1, <<>>)[1]) = "article"
    /\ Markers(LinesFrom(chunks[1].text, 1, <<>>)) = {2}
    /\ Markers(LinesFrom(chunks[2].text, 1, <<>>)) = {1}
    /\ chunks[1].upa_dafa # chunks[2].upa_dafa

-----------------------------------------------------------------------------
(* Properties of the retrieval engine *)

\* the indices of the entries of a list that carry a text
WithText(list, t) == {i \in DOMAIN list : list[i].text = t}

\* the index of the first-encountered hit with text t, before the sort
FirstSeen(t) ==
    CHOOSE i \in WithText(results, t) : \A j \in WithText(results, t) : i <= j

\* the index of the best-scored hit with text t, the first encountered of
\* equally scored ones
BestScored(t) ==
    CHOOSE i \in WithText(results, t) :
        \A j \in WithText(results, t) :
            \/ results[i].relevance_score > results[j].relevance_score
            \/ results[i].relevance_score = results[j].relevance_score /\ i <= j

\* both sources answered a hit with text t, with different scores
InBothSources(t) ==
    \E i, j \in WithText(results, t) :
        /\ results[i].source = "user_document"
        /\ results[j].source = "permanent_kb"
        /\ results[i].relevance_score # results[j].relevance_score

HashInjective == \A t, u \in Texts : text_hash[t] = text_hash[u] => t = u

C4_TopKSorted ==
    rpc = "returned" =>
        /\ Len(returned) <= top_k
        /\ \A i, j \in DOMAIN returned :
              i < j => returned[i].relevance_score >= returned[j].relevance_score

\* a call in which the sort moved the better hit, which came last, to the
\* front and top_k cut the other one off
C4_Witness ==
    /\ rpc = "returned"
    /\ Len(unique_results) > top_k /\ Len(returned) = top_k
    /\ Len(results) = 2
    /\ results[1].relevance_score < results[2].relevance_score
    /\ returned = <<results[2]>>

Failures == {"get_collection raised", "query raised"}

\* C7: failure isolation.  An exception leaves retrieve_context only from the
\* embedding of the query, before any search; a private search that raised
\* counts as zero private hits and the permanent search, when requested, still
\* runs and its hits are the ones ranked and returned; a permanent search that
\* raised leaves the private hits to be ranked and returned.
C7_FailureIsolation ==
    /\ rpc = "raised" =>
          user_results = NotAsked /\ kb_results = NotAsked /\ results = <<>>
    /\ (user_results.status \in Failures /\ rpc \in {"rank", "returned"}) =>
          /\ \A i \in DOMAIN results : results[i].source = "permanent_kb"
          /\ use_permanent_kb => kb_results.status # "not_asked"
          /\ kb_results.status = "ok" => results = KbEntries(kb_results.hits)
    /\ (kb_results.status \in Failures /\ rpc \in {"rank", "returned"}) =>
          /\ \A i \in DOMAIN results : results[i].source = "user_document"
          /\ user_results.status = "ok" => results = UserEntries(user_results.hits)
    /\ (rpc = "returned" /\ (user_results.status \in Failures
                                \/ kb_results.status \in Failures)) =>
          /\ returned = <<>> <=> results = <<>>
          /\ \A k \in DOMAIN returned : \E i \in DOMAIN results : returned[k] = results[i]

\* the private collection could not be opened and two permanent hits are
\* returned
C7_Witness ==
    /\ rpc = "returned"
    /\ user_results.status = "get_collection raised"
    /\ kb_results.status = "ok" /\ Len(kb_results.hits) = 2
    /\ Len(returned) = 2
    /\ \A k \in DOMAIN returned : returned[k].source = "permanent_kb"

\* the backend hits in the order their entries were appended
AllHits == user_results.hits \o kb_results.hits

\* C8: score normalization.  Every entry's score is 1 - d/2 of its hit's
\* distance d, whichever collection answered it: it lies in [0,1], is 1 for
\* d = 0 and 0 for d = 2, and of two hits of any sources the nearer one never
\* has the smaller score.
C8_ScoreRange ==
    /\ Len(results) = Len(AllHits)
    /\ \A i \in DOMAIN results :
          /\ results[i].text = AllHits[i].text
          /\ 2 * results[i].relevance_score = 2 * (2 * Scale) - 2 * AllHits[i].distance
          /\ results[i].relevance_score >= 0
          /\ results[i].relevance_score <= 2 * Scale
          /\ AllHits[i].distance = 0 => results[i].relevance_score = 2 * Scale
          /\ AllHits[i].distance = 2 * Scale => results[i].relevance_score = 0
    /\ \A i, j \in DOMAIN results :
          AllHits[i].distance < AllHits[j].distance
              => results[i].relevance_score >= results[j].relevance_score

\* a private hit at distance 0 and a permanent hit at distance 2 with
\* scores 1 and 0
C8_Witness ==
    /\ Len(results) = 2
    /\ results[1].source = "user_document" /\ AllHits[1].distance = 0
    /\ results[1].relevance_score = 2 * Scale
    /\ results[2].source = "permanent_kb" /\ AllHits[2].distance = 2 * Scale
    /\ results[2].relevance_score = 0

\* the position at which an entry was encountered: its index in the list
\* the two searches built, private hits first
Encounter(entry) == CHOOSE k \in DOMAIN results : results[k].id = entry.id

\* C24: among returned entries with equal relevance score the order is the
\* encounter order, all private hits in backend order before all permanent
\* hits in backend order; and of tied entries the cut to top_k keeps the
\* earliest encountered.
C24_StableTies ==
    rpc = "returned" =>
        /\ \A i, j \in DOMAIN returned :
              (i < j /\ returned[i].relevance_score = returned[j].relevance_score)
                 => Encounter(returned[i]) < Encounter(returned[j])
        /\ \A i \in DOMAIN returned, j \in DOMAIN unique_results :
              (j > Len(returned)
                  /\ unique_results[j].relevance_score = returned[i].relevance_score)
                 => Encounter(returned[i]) < Encounter(unique_results[j])

\* a private and a permanent hit with different texts and the same score:
\* both are returned, the private one first, or top_k = 1 cut the permanent
\* one off
C24_Witness ==
    /\ rpc = "returned" /\ Len(unique_results) = 2
    /\ unique_results[1].relevance_score = unique_results[2].relevance_score
    /\ unique_results[1].source = "user_document"
    /\ unique_results[2].source = "permanent_kb"
    /\ top_k = 1 /\ returned = <<unique_results[1]>>

-----------------------------------------------------------------------------
(* Properties of clean_text *)

\* the left-hand sides of the replacement list other than the double space,
\* and the two joiners of line 136
LegacySequences ==
    {replacements[k][1] : k \in 1..(Len(replacements) - 1)}
    \cup {<<"zwj">>, <<"zwnj">>}

HasLegacySequence(s) == \E q \in LegacySequences : Contains(s, q)

\* C9: clean_text(clean_text(x)) = clean_text(x) for every text x without a
\* legacy sequence.  The code does not have the property: a run of three
\* spaces loses one space per call, and so does a doubled halanta.
C9_Idempotent ==
    (clpc = "recleaned" /\ ~HasLegacySequence(raw_text)) => recleaned = cleaned

-----------------------------------------------------------------------------
(* Properties of the upload pipeline *)

TerminalStatuses == {"completed", "failed"}

\* C5: an accepted upload is answered 'pending', and once its background task
\* has ended the persisted status is 'completed' or 'failed'.  The code does
\* not have the property: when the handler's own read or save raises, the
\* task ends with the status still 'pending' or 'processing'.
C5_EndsTerminal ==
    \A d \in Docs :
        /\ documents[d] # NoRow => upload_response[d] = "pending"
        /\ upc[d] = "done" => documents[d].status \in TerminalStatuses

TerminalWrites == {"save completed", "save failed"}

\* C6: a background task that has ended wrote a terminal status exactly once
\* and that write was its last side effect.  The code does not have the
\* property: see C5, the task can end without any terminal write.
C6_OneTerminalWriteLast ==
    \A d \in Docs :
        upc[d] = "done" =>
            /\ Len(SelectSeq(effects[d], LAMBDA x : x \in TerminalWrites)) = 1
            /\ effects[d][Len(effects[d])] \in TerminalWrites

\* what process_document reports when the embedding call or the vector-store
\* write raised
WriteFailures ==
    {"encode raised", "get_or_create_collection raised", "upsert raised"}

\* C12: a failure of the embedding call or of the vector-store write makes
\* process_document return success=false with the error text, and the document
\* is recorded 'failed' with that message and never 'completed'.  The code does
\* not have the property: when the save of line 175 raises as well, the
\* message recorded is that of the save, and when the handler's read or save
\* raises too (C5) nothing is recorded and the status stays 'processing'.
C12_WriteFailureRecorded ==
    \A d \in Docs :
        result[d].error \in WriteFailures =>
            /\ ~result[d].success
            /\ documents[d].status # "completed"
            /\ upc[d] = "done" =>
                  /\ documents[d].status = "failed"
                  /\ documents[d].error_message = result[d].error

\* C13: a document that yields zero chunks is reported with the guidance
\* message, no collection is created or written for it, and the document ends
\* 'failed' with that message.  The code does not have the property, for the
\* reason of C12: the record of the failure depends on the save of line 175.
C13_NoChunksRecorded ==
    \A d \in Docs :
        result[d].error = NoChunksGuidance =>
            /\ ~result[d].success
            /\ doc_chunks[d] = 0
            /\ ~user_collections[UserCollectionName(d)].exists
            /\ upc[d] = "done" =>
                  /\ documents[d].status = "failed"
                  /\ documents[d].error_message = NoChunksGuidance

\* C15: under every interleaving of the background tasks, the chunks of one
\* private collection all originate from one document, the document the
\* collection is named after, and a completed document carries the
\* collection name and the chunk count of its own run.
C15_TasksIsolated ==
    /\ \A name \in DOMAIN user_collections :
          \A c1, c2 \in user_collections[name].stored : c1[1] = c2[1]
    /\ \A d \in Docs, name \in DOMAIN user_collections :
          /\ (\E c \in user_collections[name].stored : c[1] = d)
                => name = <<"sevabot_user_doc", d>>
          /\ documents[d].status = "completed" =>
                /\ documents[d].collection_id = <<"sevabot_user_doc", d>>
                /\ documents[d].num_chunks = doc_chunks[d]
                /\ name = documents[d].collection_id =>
                      user_collections[name].stored
                        = {<<d, i>> : i \in 1..doc_chunks[d]}

\* the second document was uploaded, stored and recorded while the task of
\* the first one, which has stored a different number of chunks, was still
\* running
C15_Witness ==
    /\ MaxDocs >= 2
    /\ upc[1] = "record" /\ result[1].success
    /\ upc[2] = "done" /\ documents[2].status = "completed"
    /\ documents[1].status = "processing"
    /\ doc_chunks[1] # doc_chunks[2]
    /\ user_collections[<<"sevabot_user_doc", 1>>].stored # {}
    /\ user_collections[<<"sevabot_user_doc", 2>>].stored # {}


-----------------------------------------------------------------------------
(* Properties of add_message and update *)

CompletionFailed(op) ==
    chat_request.op = op /\ chat_request.completion = "raises"

\* C14 as stated: whenever the completion call failed, in add_message as in
\* the regeneration after an edit, the caller receives the fallback apology
\* as the assistant message and no error response.
C14_FallbackApology ==
    chat_request.completion = "raises" =>
        /\ chat_response.status = 200
        /\ chat_response.assistant_message = Apology

\* C14: a failed completion call never escapes the handler. add_message
\* answers 200 with the fallback apology, stored as the last assistant
\* message; update answers 500 with 'Failed to generate response: <error>',
\* and carries no assistant message.
C14_CompletionFailureHandled ==
    /\ chat_response.status \in {0, 200, 400, 500}
    /\ CompletionFailed("add_message") =>
          /\ chat_response = Ok(Apology)
          /\ messages[Len(messages)] = AssistantMessage(Apology)
    /\ CompletionFailed("update") =>
          chat_response = FailedToGenerate(LLMError)

C14_Witness ==
    /\ CompletionFailed("update")
    /\ chat_response.status = 500
    /\ \E j \in 1..Len(messages) : messages[j] = AssistantMessage(Apology)


-----------------------------------------------------------------------------
(* Properties of the permanent knowledge base *)

\* the chunks of the collection that come from one file
ChunksOf(collection, file) == {c \in collection : c.source_file = file}

\* C25: without force_reload a load skips what is present.  A file of which
\* the permanent collection holds at least one chunk is not processed again:
\* the round that visits it leaves the whole collection as it is, and no
\* round of the load duplicates, replaces or removes a chunk of a file that
\* is present, whichever file the round visits.
C25_SkipIfPresent ==
    [][(kpc = "loading" /\ ~force_reload) =>
          \A file \in KbFiles :
              ChunksOf(permanent_collection, file) # {} =>
                  /\ ChunksOf(permanent_collection', file)
                       = ChunksOf(permanent_collection, file)
                  /\ (file \in pdf_files /\ file \notin pdf_files')
                        => permanent_collection' = permanent_collection]_vars

\* a second load without force_reload has visited both files, each of which
\* the first load stored, and each still has the chunks of one processing
C25_Witness ==
    /\ kb_loads = 2 /\ ~force_reload /\ kpc = "idle"
    /\ \A file \in KbFiles :
          /\ knowledge_dir[file] > 0
          /\ Cardinality(ChunksOf(permanent_collection, file)) = knowledge_dir[file]
    /\ uuid_count = Cardinality(permanent_collection)


\* C28: a document's status is 'completed' only after all of its chunks were
\* written to its private collection.  In every state a persisted status
\* 'completed' comes with the collection_id of that document's collection,
\* which exists, with a num_chunks of at least one that equals the number of
\* chunks stored there, and with no error_message.
C28_CompletedMeansStored ==
    \A d \in Docs :
        documents[d].status = "completed" =>
            /\ documents[d].collection_id = <<"sevabot_user_doc", d>>
            /\ documents[d].num_chunks >= 1
            /\ documents[d].error_message = ""
            /\ \E name \in DOMAIN user_collections :
                  /\ name = documents[d].collection_id
                  /\ user_collections[name].exists
                  /\ Cardinality(user_collections[name].stored)
                       = documents[d].num_chunks
                  /\ \A c \in user_collections[name].stored : c[1] = d

\* one document is 'completed' with all its chunks stored while the
\* collection of another exists without a chunk, its upsert having raised,
\* and that document is 'failed'
C28_Witness ==
    \E d, e \in Docs :
        /\ documents[d].status = "completed"
        /\ documents[d].num_chunks = MaxChunks
        /\ documents[e].status = "failed"
        /\ \E name \in DOMAIN user_collections :
              /\ name # documents[d].collection_id
              /\ user_collections[name].exists
              /\ user_collections[name].stored = {}

\* C29: processing a user upload leaves the permanent collection unchanged.
\* No step of an upload or of its background task adds, replaces or deletes
\* a chunk of the permanent collection, which stays what the load of the
\* knowledge base left.
C29_PermanentUntouched ==
    [][/\ permanent_collection' = permanent_collection
       /\ \A c \in permanent_collection' : c.source_file \in KbFiles]_vars

\* an upload was stored and recorded 'completed' next to a loaded permanent
\* collection
C29_Witness ==
    /\ \E d \in Docs :
          /\ documents[d].status = "completed"
          /\ \E name \in DOMAIN user_collections :
                \E c \in user_collections[name].stored : c[1] = d
    /\ permanent_collection # {}
    /\ \A c \in permanent_collection : c.source_file \in KbFiles


-----------------------------------------------------------------------------
(* Properties of the searches by owner *)

\* C27: answering a message in a conversation owned by a user searches only
\* private collections of documents owned by that user: after any sequence
\* of uploads by any users, also an upload by another user that names the
\* user's conversation, no retrieval made for the user queried the
\* collection of another user's document.
C27_OwnCollectionsOnly ==
    \A pair \in searched : doc_rows[pair[2]].user = pair[1]

\* what the searches do keep to: a searched document is completed and is the
\* user's own or is attached to a conversation of the user
SearchedOwnOrAttached ==
    \A pair \in searched :
        /\ doc_rows[pair[2]].status = "completed"
        /\ \/ doc_rows[pair[2]].user = pair[1]
           \/ doc_rows[pair[2]].conversation \in OwnConversations(pair[1])

=============================================================================
